---- MODULE Spec2Model ----
(***************************************************************************)
(* CalPal: the calendar_events store, the remote calendar service and the  *)
(* mirror / reconcile / orphan-sweep services that work on both.           *)
(*                                                                         *)
(* The store is the table calendar_events; a row is a record, the table a  *)
(* sequence of rows in insertion order (a row's position is its id).       *)
(* Time stamps are abstracted: deleted_at is the boolean "deleted"         *)
(* (deleted_at IS NOT NULL).                                               *)
(***************************************************************************)
EXTENDS Integers, Sequences, FiniteSets, TLC

VARIABLES
    rows,       \* the table calendar_events
    pending,    \* per client: the call it is inside of (record_event, advisory_lock)
    remote,     \* the events the remote calendar service holds
    nextId,     \* the id the remote service gives the next created event
    hist,       \* what the operations run so far returned: per (source event,
                \* target calendar) for the mirror calls, per pass for sync_calendar
    last,       \* what the last mirror call or orphan sweep did, item by item
    locks,      \* the advisory locks of the database server, by lock id
    engine      \* per worker: its operating-system process and its hash(key)

storeVars == <<rows, pending>>
remoteVars == <<remote, nextId>>
mirrorVars == <<hist, last>>
lockVars == <<locks, engine>>
vars == <<rows, pending, remote, nextId, hist, last, locks, engine>>

(***************************************************************************)
(* Bounds of the model.                                                    *)
(***************************************************************************)
MaxRows == 3        \* rows the table may hold
NProcs == 2         \* concurrent store clients
MaxEventId == 2     \* event ids the store clients write

\* metadata->>'source_event_id' IS NULL
NoSrc == 0
\* no row selected (a SELECT that returned nothing)
NoRow == 0

Procs == 1..NProcs

\* hash(key) % (2**31 - 1) for the one key of the model: the values it takes
LockIds == 1..2
\* no session
NoConn == <<0, 0>>
\* pg_advisory_lock's table with no lock held
NoLocks == [id \in LockIds |-> [owner |-> NoConn, count |-> 0]]
\* all workers in one process
OneEngine == [p \in Procs |-> [os |-> 1, lock_id |-> 1]]

Calendars == {"personal", "sub", "work", "classes"}

(***************************************************************************)
(* The store: calendar_events and the statements run against it.           *)
(***************************************************************************)

\* The event_data dict the writers hand to record_event / upsert_mirror_event,
\* as the row an INSERT makes of it.
\* ical_uid 0 is NULL; creator_email is NULL unless the scanner read one;
\* mirror_source is metadata.mirror_source ("" when the metadata has none).
NewRow(event_id, ical_uid, summary, start, cal, source_cal, event_type, src, mirror_source, last_action) ==
    [event_id |-> event_id, ical_uid |-> ical_uid, summary |-> summary,
     start |-> start, cal |-> cal, source_cal |-> source_cal,
     event_type |-> event_type, creator |-> "null",
     status |-> "active", deleted |-> FALSE, last_action |-> last_action,
     src |-> src, mirror_source |-> mirror_source, dnm |-> FALSE]

\* The rows the partial unique index covers: deleted_at IS NULL and a
\* source_event_id in the metadata.
InIndex(r) == r.src # NoSrc /\ ~r.deleted

\* The first row of rs the index holds under the key (src, cal), or NoRow.
IndexLookup(rs, src, cal) ==
    LET hit == {i \in DOMAIN rs : InIndex(rs[i]) /\ rs[i].src = src /\ rs[i].cal = cal}
    IN  IF src = NoSrc \/ hit = {} THEN NoRow
        ELSE CHOOSE i \in hit : \A j \in hit : i <= j

\* The index without its WHERE clause's effect: nothing ever conflicts.
InsertAllowedNoIndex(rs, r) == TRUE

\* Whether the unique index lets row r into rs.
InsertAllowed(rs, r) == IndexLookup(rs, r.src, r.cal) = NoRow

\* SELECT id ... WHERE event_id = :event_id AND current_calendar = :calendar_id
\* AND deleted_at IS NULL, .scalar(): the first such row, or NoRow.
SelectExisting(rs, event_id, cal) ==
    LET hit == {i \in DOMAIN rs :
                    rs[i].event_id = event_id /\ rs[i].cal = cal /\ ~rs[i].deleted}
    IN  IF hit = {} THEN NoRow ELSE CHOOSE i \in hit : \A j \in hit : i <= j

\* An UPDATE that also brings the row back to life
RecordUpdateReactivate(rs, id, d) ==
    [rs EXCEPT ![id] = [@ EXCEPT !.summary = d.summary, !.event_type = d.event_type,
                                 !.deleted = FALSE, !.status = "active"]]

\* record_event's UPDATE ... WHERE id = :id
RecordUpdate(rs, id, d) ==
    [rs EXCEPT ![id] = [@ EXCEPT !.summary = d.summary, !.event_type = d.event_type]]

\* record_event's INSERT: an IntegrityError of the unique index rolls the
\* session back (the call returns False and the table is unchanged).
RecordInsert(rs, d) ==
    IF InsertAllowed(rs, d) THEN Append(rs, d) ELSE rs

\* record_event, run as one transaction.
record_event(rs, d) ==
    LET existing == SelectExisting(rs, d.event_id, d.cal)
    IN  IF existing # NoRow THEN RecordUpdate(rs, existing, d) ELSE RecordInsert(rs, d)

\* upsert_mirror_event: INSERT ... ON CONFLICT (source_event_id, current_calendar)
\* ... DO UPDATE SET summary, description, location, start_time, end_time,
\* last_action = 'updated'.  event_id is not among the updated columns.
upsert_mirror_event(rs, d) ==
    LET hit == IndexLookup(rs, d.src, d.cal)
    IN  IF hit = NoRow THEN Append(rs, d)
        ELSE [rs EXCEPT ![hit] = [@ EXCEPT !.summary = d.summary,
                                           !.last_action = "updated"]]

\* A soft delete that sets deleted_at and last_action and leaves status
SoftDeleteKeepStatus(rs, event_id, cal, action) ==
    [i \in DOMAIN rs |->
        IF rs[i].event_id = event_id /\ rs[i].cal = cal /\ ~rs[i].deleted
        THEN [rs[i] EXCEPT !.deleted = TRUE, !.last_action = action]
        ELSE rs[i]]

\* UPDATE ... SET status = 'deleted', deleted_at = NOW(), last_action = :action
\* WHERE event_id = :event_id AND current_calendar = :calendar_id
\* AND deleted_at IS NULL
SoftDelete(rs, event_id, cal, action) ==
    [i \in DOMAIN rs |->
        IF rs[i].event_id = event_id /\ rs[i].cal = cal /\ ~rs[i].deleted
        THEN [rs[i] EXCEPT !.status = "deleted", !.deleted = TRUE, !.last_action = action]
        ELSE rs[i]]

mark_as_deleted(rs, event_id, cal) == SoftDelete(rs, event_id, cal, "deleted")

\* The scanner's deletion detection: every row of the calendar with
\* deleted_at IS NULL whose event_id the listing does not hold is soft-deleted.
detect_deletions(rs, cal, calendar_event_ids) ==
    [i \in DOMAIN rs |->
        IF rs[i].cal = cal /\ ~rs[i].deleted /\ rs[i].event_id \notin calendar_event_ids
        THEN [rs[i] EXCEPT !.status = "deleted", !.deleted = TRUE,
                           !.last_action = "scanner_detected_deletion"]
        ELSE rs[i]]

\* status = 'active' AND deleted_at IS NULL
IsActive(r) == r.status = "active" /\ ~r.deleted

(***************************************************************************)
(* SpecStore: store clients running upserts, plain inserts and             *)
(* soft-deletes against one table, in any interleaving.  record_event is   *)
(* a SELECT followed by an UPDATE or INSERT; another client's statement    *)
(* may fall between the two.                                               *)
(***************************************************************************)
Idle == [op |-> "none"]

StoreData ==
    { NewRow(e, 1, "A", 1, c, "personal", "other", s, "", "created") :
        e \in 1..MaxEventId, c \in {"sub", "work"}, s \in {NoSrc, 1} }

InitStore ==
    /\ rows = <<>>
    /\ pending = [p \in Procs |-> Idle]
    /\ remote = {}
    /\ nextId = 1
    /\ hist = <<>>
    /\ last = <<>>
    /\ locks = NoLocks
    /\ engine = OneEngine

StoreUpsert(p) ==
    /\ pending[p] = Idle
    /\ \E d \in {x \in StoreData : x.src # NoSrc} :
        /\ Len(upsert_mirror_event(rows, d)) <= MaxRows
        /\ rows' = upsert_mirror_event(rows, d)
    /\ UNCHANGED pending

StoreRecordSelect(p) ==
    /\ pending[p] = Idle
    /\ Len(rows) < MaxRows
    /\ \E d \in StoreData :
        pending' = [pending EXCEPT ![p] =
            [op |-> "record_event", data |-> d,
             existing |-> SelectExisting(rows, d.event_id, d.cal)]]
    /\ UNCHANGED rows

StoreRecordWrite(p) ==
    /\ pending[p] # Idle
    /\ rows' = IF pending[p].existing # NoRow
               THEN RecordUpdate(rows, pending[p].existing, pending[p].data)
               ELSE RecordInsert(rows, pending[p].data)
    /\ pending' = [pending EXCEPT ![p] = Idle]

StoreMarkDeleted(p) ==
    /\ pending[p] = Idle
    /\ \E e \in 1..MaxEventId, c \in {"sub", "work"} :
        rows' = mark_as_deleted(rows, e, c)
    /\ UNCHANGED pending

StoreDetectDeletions(p) ==
    /\ pending[p] = Idle
    /\ \E c \in {"sub", "work"}, ids \in SUBSET (1..MaxEventId) :
        rows' = detect_deletions(rows, c, ids)
    /\ UNCHANGED pending

NextStore ==
    /\ \E p \in Procs :
        \/ StoreUpsert(p)
        \/ StoreRecordSelect(p)
        \/ StoreRecordWrite(p)
        \/ StoreMarkDeleted(p)
        \/ StoreDetectDeletions(p)
    /\ UNCHANGED <<remoteVars, mirrorVars, lockVars>>

SpecStore == InitStore /\ [][NextStore]_vars

\* C1: in every reachable state no two active rows (status = active,
\* deleted_at null) that carry a source_event_id share the same
\* (source_event_id, current_calendar).
C1_UniqueActiveMirror ==
    \A i, j \in DOMAIN rows :
        (/\ i # j
         /\ IsActive(rows[i]) /\ IsActive(rows[j])
         /\ rows[i].src # NoSrc
         /\ rows[i].src = rows[j].src
         /\ rows[i].cal = rows[j].cal) => FALSE

\* C1's case: an upsert or insert met an active row of its key (the row was
\* updated in place, or the insert was refused), and a soft-deleted row of
\* the same key lies beside the active one.
C1_Witness ==
    \E i, j \in DOMAIN rows :
        /\ rows[i].src # NoSrc /\ rows[i].src = rows[j].src /\ rows[i].cal = rows[j].cal
        /\ rows[i].deleted /\ IsActive(rows[j])
        /\ rows[j].last_action = "updated"

(***************************************************************************)
(* The remote calendar service.  An event is its id, its calendar, its     *)
(* summary and start, and the private extended property source_event_id    *)
(* (NoSrc when the event has none).                                        *)
(***************************************************************************)
MaxCalls == 2       \* mirror calls per (source event, target calendar)
MaxBlocks == 4      \* mirror blocks run in one behaviour, all keys together

\* None: no event id returned
NoEvent == 0
\* the service account that creates the mirrors
ServiceAccount == "svc"

RemoteEvent(id, ical_uid, cal, src, summary, start) ==
    [id |-> id, ical_uid |-> ical_uid, cal |-> cal, src |-> src,
     summary |-> summary, start |-> start]

\* events().insert(calendarId, body).execute(): the service gives the event a
\* fresh id and a fresh iCalUID (the body carries neither).
InsertRemote(rem, id, cal, src, summary, start) ==
    rem \cup {RemoteEvent(id, id, cal, src, summary, start)}

\* find_mirror_on_google_calendar: the events of the calendar that start in
\* [start_time, start_time + 1 min), match the free-text query q ("" matches
\* all) and carry private.source_event_id = source_event_id.  The method
\* returns the id of the first of them in the listing's order, and None when
\* there is none or the listing raised.
MirrorsOnGoogle(rem, source_event_id, cal, q, start) ==
    {ev.id : ev \in {x \in rem : /\ x.cal = cal
                                 /\ x.start = start
                                 /\ (q = "" \/ x.summary = q)
                                 /\ x.src = source_event_id}}

\* What find_mirror_on_google_calendar may return: one of the matching
\* events, or None (nothing matched, the listing raised, or the listing did
\* not hold the event yet).
FindChoices(rem, source_event_id, cal, q, start) ==
    MirrorsOnGoogle(rem, source_event_id, cal, q, start) \cup {NoEvent}

\* An active store record with this source_event_id on this calendar.
HasActiveMirror(rs, src, cal) ==
    \E i \in DOMAIN rs : IsActive(rs[i]) /\ rs[i].src = src /\ rs[i].cal = cal

\* check_mirror_exists: SELECT event_id ... WHERE source_event_id = :source_id
\* AND current_calendar = :target_cal AND deleted_at IS NULL LIMIT 1
check_mirror_exists(rs, src, cal) ==
    \E i \in DOMAIN rs : ~rs[i].deleted /\ rs[i].src = src /\ rs[i].src # NoSrc /\ rs[i].cal = cal

\* check_do_not_mirror: a row with this ical_uid and event_type has
\* do_not_mirror = TRUE (ical_uid = NULL matches no row).
check_do_not_mirror(rs, ical_uid, event_type) ==
    \E i \in DOMAIN rs :
        /\ ical_uid # 0
        /\ rs[i].ical_uid = ical_uid
        /\ rs[i].event_type = event_type
        /\ rs[i].dnm

\* mark_do_not_mirror: UPDATE ... SET do_not_mirror = TRUE WHERE ical_uid =
\* :ical_uid AND event_type = :event_type
mark_do_not_mirror(rs, ical_uid, event_type) ==
    [i \in DOMAIN rs |->
        IF ical_uid # 0 /\ rs[i].ical_uid = ical_uid /\ rs[i].event_type = event_type
        THEN [rs[i] EXCEPT !.dnm = TRUE] ELSE rs[i]]

\* get_source_events: the rows mirror_calendar iterates over.
get_source_events(rs, source_calendar, event_type) ==
    {i \in DOMAIN rs : /\ rs[i].source_cal = source_calendar
                       /\ rs[i].event_type = event_type
                       /\ ~rs[i].deleted
                       /\ ~rs[i].dnm}

\* What one mirror block did: its key, whether do_not_mirror was set for the
\* source's (ical_uid, event_type) and whether an active store record of the
\* key existed when the call started, its result, the remote event it
\* adopted or created, and the remote-create calls and store upserts it issued.
BlockLog(src, cal, dnm, hadActive, result, rid, creates, upserts) ==
    [src |-> src, cal |-> cal, dnm |-> dnm, hadActive |-> hadActive,
     result |-> result, rid |-> rid, creates |-> creates, upserts |-> upserts]

\* The running state of a per-event body: the store, the remote service and
\* the blocks run so far.
BodyState(rs, rem, nid, log) == [rows |-> rs, remote |-> rem, nextId |-> nid, log |-> log]

\* One locked block of mirror_calendar / sync_subcalendar (the body of "with
\* advisory_lock(...)"): look the mirror up on the remote calendar; if found,
\* upsert a record for it; else create the remote event and upsert a record
\* for the new id; a failed create (HttpError) counts an error.
\* found is what find_mirror_on_google_calendar returned, out how
\* events().insert ended: an exception other than HttpError leaves the block
\* and the rest of the per-event body and is counted by the loop's handler.
CreateOutcomes == {"ok", "http_error", "raise"}

MirrorBlock(st, e, cal, summary, event_type, source_calendar, found, out) ==
    LET hadActive == HasActiveMirror(st.rows, e.event_id, cal)
        dnm == check_do_not_mirror(st.rows, e.ical_uid, e.event_type)
        data(id) == NewRow(id, e.ical_uid, summary, e.start, cal, source_calendar,
                           event_type, e.event_id, source_calendar, "created")
    IN  IF found # NoEvent
        THEN BodyState(upsert_mirror_event(st.rows, data(found)), st.remote, st.nextId,
                Append(st.log, BlockLog(e.event_id, cal, dnm, hadActive, "adopted", found, 0, 1)))
        ELSE IF out = "ok"
        THEN BodyState(upsert_mirror_event(st.rows, data(st.nextId)),
                InsertRemote(st.remote, st.nextId, cal, e.event_id, summary, e.start),
                st.nextId + 1,
                Append(st.log, BlockLog(e.event_id, cal, dnm, hadActive, "created", st.nextId, 1, 1)))
        ELSE BodyState(st.rows, st.remote, st.nextId,
                Append(st.log, BlockLog(e.event_id, cal, dnm, hadActive,
                                        IF out = "raise" THEN "raised" ELSE "error",
                                        NoEvent, 1, 0)))

\* The last block left the per-event body by an exception.
Raised(st) == Len(st.log) > 0 /\ st.log[Len(st.log)].result = "raised"

\* The free-text query of find_mirror_on_google_calendar in mirror_calendar.
BusyQuery(summary) == IF summary # "Busy" THEN summary ELSE ""

\* The keys the mirror writers work on, and the call history of each.
MirrorKeys == {<<1, "sub">>, <<1, "work">>, <<2, "work">>, <<3, "sub">>, <<3, "work">>}

Record(h, log) ==
    [k \in MirrorKeys |->
        LET mine == {n \in DOMAIN log : <<log[n].src, log[n].cal>> = k}
        IN  IF mine = {} THEN h[k]
            ELSE Append(h[k], log[CHOOSE n \in mine : TRUE].result)]

Suppressed(rs, e, cals) ==
    [n \in 1..Len(cals) |->
        BlockLog(e.event_id, cals[n], TRUE, HasActiveMirror(rs, e.event_id, cals[n]),
                 "suppressed", NoEvent, 0, 0)]

(***************************************************************************)
(* SpecMirror: the three mirror writers called one after the other, each   *)
(* call the per-event body of the writer's loop.                           *)
(***************************************************************************)
PersonalRow ==
    [NewRow(1, 1, "A", 1, "personal", "personal", "personal", NoSrc, "", "scanned")
        EXCEPT !.creator = "user"]
ClassRow ==
    [NewRow(2, 2, "B", 1, "classes", "classes", "25live_class", NoSrc, "", "scanned")
        EXCEPT !.creator = ServiceAccount]

\* A later instance of the personal event's series: another event id and
\* start, the same iCalUID and kind.
InstanceRow ==
    [NewRow(3, 1, "A", 2, "personal", "personal", "personal", NoSrc, "", "scanned")
        EXCEPT !.creator = "user"]

InitMirror ==
    /\ rows = <<PersonalRow, ClassRow>>
    /\ pending = [p \in Procs |-> Idle]
    /\ remote = {RemoteEvent(1, 1, "personal", NoSrc, "A", 1),
                 RemoteEvent(2, 2, "classes", NoSrc, "B", 1)}
    /\ nextId = 4
    /\ hist = [k \in MirrorKeys |-> <<>>]
    /\ last = <<>>
    /\ locks = NoLocks
    /\ engine = OneEngine

RECURSIVE Blocks(_, _)
Blocks(h, keys) ==
    IF keys = {} THEN 0
    ELSE LET k == CHOOSE x \in keys : TRUE
         IN  Len(h[k]) + Blocks(h, keys \ {k})

CanCall(keys) ==
    /\ \A k \in keys : Len(hist[k]) < MaxCalls
    /\ Blocks(hist, MirrorKeys) < MaxBlocks

\* PersonalFamilyMirror.mirror_calendar, the body of its loop for one source
\* row: the do_not_mirror check, the subcalendar block (full details) and
\* the Work block ("Busy").
mirror_calendar(i) ==
    LET e == rows[i]
        st0 == BodyState(rows, remote, nextId, <<>>)
    IN  /\ i \in get_source_events(rows, "personal", "personal")
        /\ CanCall({<<e.event_id, "sub">>, <<e.event_id, "work">>})
        /\ IF check_do_not_mirror(rows, e.ical_uid, "personal")
           THEN /\ last' = Suppressed(rows, e, <<"sub", "work">>)
                /\ hist' = Record(hist, last')
                /\ UNCHANGED <<rows, remote, nextId>>
           ELSE \E f1 \in FindChoices(remote, e.event_id, "sub", BusyQuery(e.summary), e.start),
                   ok1 \in CreateOutcomes :
                LET st1 == MirrorBlock(st0, e, "sub", e.summary, "personal_mirror",
                                       "personal", f1, ok1)
                IN  \E f2 \in FindChoices(st1.remote, e.event_id, "work", BusyQuery("Busy"), e.start),
                       ok2 \in CreateOutcomes :
                    LET st2 == IF Raised(st1) THEN st1
                               ELSE MirrorBlock(st1, e, "work", "Busy", "personal_work_mirror",
                                                "personal", f2, ok2)
                    IN  /\ rows' = st2.rows
                        /\ remote' = st2.remote
                        /\ nextId' = st2.nextId
                        /\ last' = st2.log
                        /\ hist' = Record(hist, st2.log)
        /\ UNCHANGED pending

\* 'work_mirror' in event_type
WorkMirrorTypes == {"personal_work_mirror", "family_work_mirror", "subcalendar_work_mirror"}

\* is_mirror_from_work
is_mirror_from_work(e) ==
    \/ e.mirror_source = "work"
    \/ e.event_type \in WorkMirrorTypes
    \/ e.event_type = "meeting_mirror"

\* event_blacklist.json: no file, nothing blacklisted
blacklisted_events == {}
is_event_blacklisted(summary) == summary \in blacklisted_events

\* event_exists_on_work_by_icaluid
event_exists_on_work_by_icaluid(rs, ical_uid) ==
    /\ ical_uid # 0
    /\ \E i \in DOMAIN rs : /\ rs[i].cal = "work"
                            /\ rs[i].ical_uid = ical_uid
                            /\ ~rs[i].deleted
                            /\ rs[i].creator # ServiceAccount

\* get_subcalendar_events
get_subcalendar_events(rs, calendar_id) ==
    {i \in DOMAIN rs : rs[i].cal = calendar_id /\ ~rs[i].deleted /\ rs[i].status = "active"}

\* get_event_by_time_and_summary: SELECT * ... LIMIT 1 with no ORDER BY, so
\* any of the matching rows, or NoRow when there is none.
get_event_by_time_and_summary(rs, summary, start, calendar_id) ==
    LET hit == {i \in DOMAIN rs : /\ rs[i].summary = summary
                                  /\ rs[i].start = start
                                  /\ rs[i].cal = calendar_id
                                  /\ ~rs[i].deleted}
    IN  IF hit = {} THEN {NoRow} ELSE hit

Skipped(rs, e, cal, result) ==
    <<BlockLog(e.event_id, cal, check_do_not_mirror(rs, e.ical_uid, e.event_type),
               HasActiveMirror(rs, e.event_id, cal), result, NoEvent, 0, 0)>>

\* SubcalendarWorkSync.sync_subcalendar, the body of its loop for one row of
\* the subcalendar, at the start of a run (seen_time_blocks is empty).
sync_subcalendar(i) ==
    LET e == rows[i]
        st0 == BodyState(rows, remote, nextId, <<>>)
    IN  /\ i \in get_subcalendar_events(rows, "classes")
        /\ CanCall({<<e.event_id, "work">>})
        /\ \E tm \in get_event_by_time_and_summary(rows, e.summary, e.start, "work") :
            IF is_mirror_from_work(e) \/ is_event_blacklisted(e.summary)
            THEN /\ last' = Skipped(rows, e, "work", "skipped")
                 /\ hist' = Record(hist, last')
                 /\ UNCHANGED <<rows, remote, nextId>>
            ELSE IF \/ event_exists_on_work_by_icaluid(rows, e.ical_uid)
                    \/ (tm # NoRow /\ rows[tm].event_type = "subcalendar_work_mirror")
            THEN /\ last' = Skipped(rows, e, "work", "already_mirrored")
                 /\ hist' = Record(hist, last')
                 /\ UNCHANGED <<rows, remote, nextId>>
            ELSE \E f \in FindChoices(remote, e.event_id, "work", e.summary, e.start),
                    ok \in CreateOutcomes :
                 LET st1 == MirrorBlock(st0, e, "work", e.summary, "subcalendar_work_mirror",
                                        "classes", f, ok)
                 IN  /\ rows' = st1.rows
                     /\ remote' = st1.remote
                     /\ nextId' = st1.nextId
                     /\ last' = st1.log
                     /\ hist' = Record(hist, st1.log)
        /\ UNCHANGED pending

\* PersonalMirror.sync_personal_events, the body of its loop for one event of
\* the personal calendar's listing: the store lookup, the remote create and
\* record_mirror_in_db (a plain record_event).
sync_personal_events(ev) ==
    LET dnm == check_do_not_mirror(rows, ev.ical_uid, "personal")
        hadActive == HasActiveMirror(rows, ev.id, "work")
        data == NewRow(nextId, ev.ical_uid, ev.summary, ev.start, "work", "personal",
                       "personal_work_mirror", ev.id, "", "created")
    IN  /\ ev \in remote
        /\ ev.cal = "personal"
        /\ CanCall({<<ev.id, "work">>})
        /\ IF check_mirror_exists(rows, ev.id, "work")
           THEN /\ last' = <<BlockLog(ev.id, "work", dnm, hadActive, "already_mirrored",
                                      NoEvent, 0, 0)>>
                /\ UNCHANGED <<rows, remote, nextId>>
           ELSE \E out \in CreateOutcomes :
                IF out = "ok"
                THEN /\ remote' = InsertRemote(remote, nextId, "work", ev.id, ev.summary, ev.start)
                     /\ nextId' = nextId + 1
                     /\ rows' = record_event(rows, data)
                     /\ last' = <<BlockLog(ev.id, "work", dnm, hadActive, "created",
                                           nextId, 1, 1)>>
                ELSE /\ last' = <<BlockLog(ev.id, "work", dnm, hadActive,
                                           IF out = "raise" THEN "raised" ELSE "error",
                                           NoEvent, 1, 0)>>
                     /\ UNCHANGED <<rows, remote, nextId>>
        /\ hist' = Record(hist, last')
        /\ UNCHANGED pending

\* PersonalFamilyMirror.mark_do_not_mirror
MarkDoNotMirror ==
    /\ \E e \in {PersonalRow, ClassRow} :
        rows' = mark_do_not_mirror(rows, e.ical_uid, e.event_type)
    /\ UNCHANGED <<pending, remote, nextId, hist, last>>

\* The owner adds the instance to the personal calendar and
\* CalendarScanner.scan_calendar records it: get_event_by_id finds no row, so
\* record_event inserts one.
scan_calendar ==
    LET ev == RemoteEvent(InstanceRow.event_id, InstanceRow.ical_uid, "personal", NoSrc,
                          InstanceRow.summary, InstanceRow.start)
    IN  /\ ev \notin remote
        /\ remote' = remote \cup {ev}
        /\ rows' = record_event(rows, InstanceRow)
        /\ UNCHANGED <<pending, nextId, hist, last>>

NextMirror ==
    /\ \/ scan_calendar
       \/ \E i \in DOMAIN rows : mirror_calendar(i)
       \/ \E i \in DOMAIN rows : sync_subcalendar(i)
       \/ \E ev \in remote : sync_personal_events(ev)
       \/ MarkDoNotMirror
    /\ UNCHANGED lockVars

SpecMirror == InitMirror /\ [][NextMirror]_vars

\* C2: for every key, once a call has created or adopted the mirror, no later
\* call of the key returns "created", the key has exactly one active store
\* record and at most one remote event.
C2_IdempotentMirroring ==
    \A k \in MirrorKeys :
        (\E n \in DOMAIN hist[k] : hist[k][n] \in {"created", "adopted"}) =>
            /\ \A m, n \in DOMAIN hist[k] :
                    (m < n /\ hist[k][m] \in {"created", "adopted"}) => hist[k][n] # "created"
            /\ Cardinality({i \in DOMAIN rows :
                    IsActive(rows[i]) /\ rows[i].src = k[1] /\ rows[i].cal = k[2]}) = 1
            /\ Cardinality({ev \in remote : ev.src = k[1] /\ ev.cal = k[2]}) <= 1

\* C8: a mirror call made while do_not_mirror is set for the source's
\* (ical_uid, event_type) issues no remote create and no store upsert.
C8_SuppressionSticky ==
    \A n \in DOMAIN last : last[n].dnm => (last[n].creates = 0 /\ last[n].upserts = 0)

\* C9: a mirror call that starts with an active store record of its
\* (source_event_id, calendar) issues no remote create.
C9_StoreRecordAuthoritative ==
    \A n \in DOMAIN last : last[n].hadActive => last[n].creates = 0

\* C10: after a call returned "adopted" or "created", the active store record
\* of its key carries the id of the remote event adopted or created.
C10_RecordPointsAtRemote ==
    \A n \in DOMAIN last :
        last[n].result \in {"adopted", "created"} =>
            \E i \in DOMAIN rows : /\ IsActive(rows[i])
                                   /\ rows[i].src = last[n].src
                                   /\ rows[i].cal = last[n].cal
                                   /\ rows[i].event_id = last[n].rid

(***************************************************************************)
(* UnifiedCalendarSync: one pass of sync_calendar makes the remote         *)
(* calendar match the store.  All events lie inside the pass's time        *)
(* window (90 days back, 365 days forward).                                *)
(***************************************************************************)
MaxPasses == 2      \* passes and outside changes in one behaviour
MaxBatch == 1       \* the largest --batch-size tried
\* batch_size = None
NoBatch == 0

Min(a, b) == IF a < b THEN a ELSE b

\* The event ids of the active rows of the calendar
ActiveIds(rs, calendar_id) ==
    {rs[i].event_id : i \in {j \in DOMAIN rs : /\ rs[j].cal = calendar_id
                                               /\ ~rs[j].deleted
                                               /\ rs[j].status = "active"}}

\* _get_active_db_events: the keys of the dict it returns; any error of the
\* query is caught and gives the empty dict.
get_active_db_events(rs, calendar_id, db_ok) ==
    IF db_ok THEN ActiveIds(rs, calendar_id) ELSE {}

\* _get_calendar_events: the keys of the dict it returns; any error in the
\* listing is caught and gives the empty dict.
get_calendar_events(rem, calendar_id, list_ok) ==
    IF list_ok THEN {ev.id : ev \in {x \in rem : x.cal = calendar_id}} ELSE {}

\* _get_events_to_delete: the rows (by position) marked deleted and not yet
\* removed from the remote calendar
get_events_to_delete(rs, calendar_id) ==
    {i \in DOMAIN rs : /\ rs[i].cal = calendar_id
                       /\ rs[i].deleted
                       /\ rs[i].status = "deleted"
                       /\ rs[i].last_action \notin {"removed_from_google", "already_removed"}}

\* list(...)[:batch_size - operations_count], the whole list when
\* batch_size is None: the lists it may be, as sets.
Slice(S, batch_size, operations_count) ==
    IF batch_size = NoBatch THEN {S}
    ELSE {P \in SUBSET S : Cardinality(P) = Min(Cardinality(S), batch_size - operations_count)}

\* UPDATE calendar_events SET last_action = :action WHERE event_id = :event_id
\* AND current_calendar = :calendar_id
SetLastAction(rs, event_id, calendar_id, action) ==
    [i \in DOMAIN rs |->
        IF rs[i].event_id = event_id /\ rs[i].cal = calendar_id
        THEN [rs[i] EXCEPT !.last_action = action] ELSE rs[i]]

\* events().delete(calendarId, eventId).execute() when it succeeds
DeleteRemote(rem, calendar_id, event_id) ==
    {ev \in rem : ~(ev.cal = calendar_id /\ ev.id = event_id)}

OnRemote(rem, calendar_id, event_id) ==
    \E ev \in rem : ev.cal = calendar_id /\ ev.id = event_id

\* local_stats of sync_calendar, with the remote calls issued (their
\* numbers, and their kinds in the order of issue), the settings of the run,
\* the event ids deleted as stale, the active event ids of the store when the
\* pass began, the rows the pass soft-deleted and the number of remote calls
\* that failed
Stats(to_create, to_delete, dry_run, deletions_only, batch_size, list_ok, db_ok) ==
    [events_to_create |-> Cardinality(to_create), events_to_delete |-> Cardinality(to_delete),
     created |-> 0, deleted |-> 0, errors |-> 0, create_calls |-> 0, delete_calls |-> 0,
     calls |-> <<>>, stale_deleted |-> {}, aborted |-> FALSE,
     active_before |-> {}, soft_deleted |-> {}, failures |-> 0,
     dry_run |-> dry_run, deletions_only |-> deletions_only, batch_size |-> batch_size,
     list_ok |-> list_ok, db_ok |-> db_ok]

PassState(rs, rem, nid, stats, operations_count) ==
    [rows |-> rs, remote |-> rem, nextId |-> nid, stats |-> stats, ops |-> operations_count]

\* How the delete call of one stale event ends: it succeeds (a 404/410 is
\* counted as deleted too); HttpError, which the loop counts; another
\* exception, which the loop does not catch and which ends _apply_changes;
\* or the call is not reached because an earlier one ended the loop.
StaleOutcomes == {"ok", "http_error", "raise", "not_reached"}

\* The outcomes one run of the loop over P can have (the loop's order is
\* that of list(to_delete), any order).
StaleRuns(P) ==
    {out \in [P -> StaleOutcomes] :
        /\ Cardinality({id \in P : out[id] = "raise"}) <= 1
        /\ (\E id \in P : out[id] = "not_reached") => (\E id \in P : out[id] = "raise")}

\* _apply_changes, "Delete stale events"
StaleDeletes(st, calendar_id, P, out) ==
    LET done == {id \in P : out[id] = "ok"}
        failed == {id \in P : out[id] = "http_error"}
        called == {id \in P : out[id] # "not_reached"}
    IN  PassState(st.rows,
                  {ev \in st.remote : ~(ev.cal = calendar_id /\ ev.id \in done)},
                  st.nextId,
                  [st.stats EXCEPT !.deleted = @ + Cardinality(done),
                                   !.errors = @ + Cardinality(failed),
                                   !.delete_calls = @ + Cardinality(called),
                                   !.calls = @ \o [n \in 1..Cardinality(called) |-> "delete"],
                                   !.stale_deleted = @ \cup done,
                                   !.failures = @ + Cardinality(called \ done),
                                   !.aborted = \E id \in P : out[id] = "raise"],
                  st.ops + Cardinality(done))

\* _apply_changes, "Delete explicitly deleted events", in the order of the
\* rows: a successful call removes the event and marks the rows
\* removed_from_google, a 404/410 marks them already_removed, any other
\* error is counted.
RECURSIVE ExplicitDeletes(_, _, _, _)
ExplicitDeletes(st, calendar_id, P, out) ==
    IF P = {} THEN st
    ELSE LET i == CHOOSE x \in P : \A y \in P : x <= y
             id == st.rows[i].event_id
             here == OnRemote(st.remote, calendar_id, id)
             st1 == IF out[i]
                    THEN PassState(
                            SetLastAction(st.rows, id, calendar_id,
                                IF here THEN "removed_from_google" ELSE "already_removed"),
                            DeleteRemote(st.remote, calendar_id, id),
                            st.nextId,
                            [st.stats EXCEPT !.deleted = @ + 1, !.delete_calls = @ + 1,
                                             !.calls = Append(@, "delete")],
                            st.ops + 1)
                    ELSE PassState(st.rows, st.remote, st.nextId,
                            [st.stats EXCEPT !.errors = @ + 1, !.delete_calls = @ + 1,
                                             !.failures = @ + 1,
                                             !.calls = Append(@, "delete")],
                            st.ops)
         IN  ExplicitDeletes(st1, calendar_id, P \ {i}, out)

\* The active row _get_active_db_events kept under event_id
DbEvent(rs, calendar_id, event_id) ==
    rs[CHOOSE i \in DOMAIN rs : /\ rs[i].event_id = event_id
                                /\ rs[i].cal = calendar_id
                                /\ ~rs[i].deleted
                                /\ rs[i].status = "active"]

\* _apply_changes, "Create missing events": events().insert of the body
\* _build_google_event makes (no id: the service assigns one; no extended
\* properties: the rows carry no google_event_data), then last_action =
\* synced_to_google on the rows of event_id.  The row's event_id stays.
RECURSIVE Creates(_, _, _, _)
Creates(st, calendar_id, P, out) ==
    IF P = {} THEN st
    ELSE LET id == CHOOSE x \in P : \A y \in P : x <= y
             db_event == DbEvent(st.rows, calendar_id, id)
             st1 == IF out[id]
                    THEN PassState(
                            SetLastAction(st.rows, id, calendar_id, "synced_to_google"),
                            InsertRemote(st.remote, st.nextId, calendar_id, NoSrc,
                                         db_event.summary, db_event.start),
                            st.nextId + 1,
                            [st.stats EXCEPT !.created = @ + 1, !.create_calls = @ + 1,
                                             !.calls = Append(@, "create")],
                            st.ops + 1)
                    ELSE PassState(st.rows, st.remote, st.nextId,
                            [st.stats EXCEPT !.errors = @ + 1, !.create_calls = @ + 1,
                                             !.failures = @ + 1,
                                             !.calls = Append(@, "create")],
                            st.ops)
         IN  Creates(st1, calendar_id, P \ {id}, out)

\* _apply_changes with creations before deletions
apply_changes_creates_first(st, calendar_id, P1, out1, P2, out2, P3, out3) ==
    ExplicitDeletes(StaleDeletes(Creates(st, calendar_id, P3, out3), calendar_id, P1, out1),
                    calendar_id, P2, out2)

\* _apply_changes: the stale deletions, then the explicit deletions, then
\* the creations.
apply_changes(st, calendar_id, P1, out1, P2, out2, P3, out3) ==
    LET st1 == StaleDeletes(st, calendar_id, P1, out1)
    IN  IF st1.stats.aborted THEN st1
        ELSE Creates(ExplicitDeletes(st1, calendar_id, P2, out2), calendar_id, P3, out3)

\* A change made outside the passes
External == [external |-> TRUE]
IsPass(h) == "external" \notin DOMAIN h

\* The rows that carry removed_from_google or already_removed, as
\* <<event_id, calendar>> pairs.
Settled(rs) ==
    {<<rs[i].event_id, rs[i].cal>> : i \in {j \in DOMAIN rs :
        rs[j].last_action \in {"removed_from_google", "already_removed"}}}

\* What one operation did about soft-deleted rows: the events it called
\* events().delete for because their rows are soft-deleted, and the rows that
\* were settled when it began.
RemovalLog(op, called, settled) == [op |-> op, called |-> called, settled |-> settled]

\* sync_calendar: one whole pass over the work calendar.
sync_calendar ==
    /\ Len(hist) < MaxPasses
    /\ \E dry_run, deletions_only, list_ok, db_ok \in BOOLEAN,
          batch_size \in NoBatch..MaxBatch :
        LET db_events == get_active_db_events(rows, "work", db_ok)
            gcal_events == get_calendar_events(remote, "work", list_ok)
            to_create == db_events \ gcal_events
            to_delete == gcal_events \ db_events
            explicitly_deleted == get_events_to_delete(rows, "work")
            st0 == PassState(rows, remote, nextId,
                             [Stats(to_create, to_delete, dry_run, deletions_only,
                                    batch_size, list_ok, db_ok)
                                EXCEPT !.active_before = ActiveIds(rows, "work")], 0)
        IN  IF dry_run
            THEN /\ hist' = Append(hist, st0.stats)
                 /\ last' = RemovalLog("pass", {}, Settled(rows))
                 /\ UNCHANGED <<rows, remote, nextId>>
            ELSE \E P1 \in Slice(to_delete, batch_size, 0) : \E out1 \in StaleRuns(P1) :
                 LET st1 == StaleDeletes(st0, "work", P1, out1)
                 IN  \E P2 \in Slice(explicitly_deleted, batch_size, st1.ops) :
                     \E out2 \in [P2 -> BOOLEAN] :
                     LET st2 == ExplicitDeletes(st1, "work", P2, out2)
                     IN  \E P3 \in (IF deletions_only THEN {{}}
                                    ELSE Slice(to_create, batch_size, st2.ops)) :
                         \E out3 \in [P3 -> BOOLEAN] :
                         LET st3 == apply_changes(st0, "work", P1, out1, P2, out2, P3, out3)
                         IN  /\ rows' = st3.rows
                             /\ remote' = st3.remote
                             /\ nextId' = st3.nextId
                             /\ hist' = Append(hist,
                                    [st3.stats EXCEPT !.soft_deleted =
                                        {i \in DOMAIN rows :
                                            st3.rows[i].deleted /\ ~rows[i].deleted}])
                             /\ last' = RemovalLog("pass",
                                    IF st3.stats.aborted THEN {}
                                    ELSE {<<rows[i].event_id, "work">> : i \in P2},
                                    Settled(rows))
    /\ UNCHANGED pending

\* Between passes the scanner soft-deletes a row of the work calendar
\* (mark_as_deleted).
ReconcileSoftDelete ==
    /\ Len(hist) < MaxPasses
    /\ \E i \in DOMAIN rows :
        /\ ~rows[i].deleted
        /\ rows' = mark_as_deleted(rows, rows[i].event_id, rows[i].cal)
    /\ hist' = Append(hist, External)
    /\ last' = <<>>
    /\ UNCHANGED <<pending, remote, nextId>>

\* The scanner's _remove_deleted_events: the rows SELECTed are the
\* soft-deleted ones whose last_action is not removed_from_google.
RemovalCandidates(rs) ==
    {i \in DOMAIN rs : /\ rs[i].deleted
                       /\ rs[i].status = "deleted"
                       /\ rs[i].last_action # "removed_from_google"}

\* The loop of _remove_deleted_events over the rows P (by position): a
\* delete that succeeds marks the rows removed_from_google, a 404/410 marks
\* them already_removed, any other error leaves them.  out[i] tells whether
\* the call for row i got through to the service.
RECURSIVE RemoveFromGoogle(_, _, _)
RemoveFromGoogle(st, P, out) ==
    IF P = {} THEN st
    ELSE LET i == CHOOSE x \in P : \A y \in P : x <= y
             id == st.rows[i].event_id
             cal == st.rows[i].cal
             here == OnRemote(st.remote, cal, id)
             st1 == IF out[i]
                    THEN BodyState(
                            SetLastAction(st.rows, id, cal,
                                IF here THEN "removed_from_google" ELSE "already_removed"),
                            DeleteRemote(st.remote, cal, id),
                            st.nextId, st.log)
                    ELSE st
         IN  RemoveFromGoogle(st1, P \ {i}, out)

remove_deleted_events ==
    LET deleted_events == RemovalCandidates(rows)
    IN  /\ deleted_events # {}
        /\ \E out \in [deleted_events -> BOOLEAN] :
            LET st == RemoveFromGoogle(BodyState(rows, remote, nextId, <<>>),
                                       deleted_events, out)
            IN  /\ rows' = st.rows
                /\ remote' = st.remote
        /\ last' = RemovalLog("sweep",
                        {<<rows[i].event_id, rows[i].cal>> : i \in deleted_events},
                        Settled(rows))
        /\ UNCHANGED <<pending, nextId, hist>>

WorkRow(id, deleted) ==
    LET r == NewRow(id, id, "A", 1, "work", "work", "other", NoSrc, "", "scanned")
    IN  IF deleted
        THEN [r EXCEPT !.deleted = TRUE, !.status = "deleted", !.last_action = "deleted"]
        ELSE r

\* The stores and remote calendars a pass may start from: up to two rows of
\* the work calendar, live or soft-deleted, and any of their events remote.
ReconcileStores ==
    {<<>>} \cup {<<WorkRow(1, d)>> : d \in BOOLEAN}
           \cup {<<WorkRow(1, d1), WorkRow(2, d2)>> : d1, d2 \in BOOLEAN}

InitReconcile ==
    /\ rows \in ReconcileStores
    /\ remote \in SUBSET {RemoteEvent(id, id, "work", NoSrc, "A", 1) : id \in 1..2}
    /\ nextId = 3
    /\ pending = [p \in Procs |-> Idle]
    /\ hist = <<>>
    /\ last = <<>>
    /\ locks = NoLocks
    /\ engine = OneEngine

NextReconcile ==
    /\ \/ sync_calendar
       \/ ReconcileSoftDelete
       \/ remove_deleted_events
    /\ UNCHANGED lockVars

SpecReconcile == InitReconcile /\ [][NextReconcile]_vars

\* The last step was a live pass with creations enabled and no batch limit
\* that read the remote listing and counted no error.
CleanPass(h) ==
    /\ IsPass(h)
    /\ ~h.dry_run /\ ~h.deletions_only /\ h.batch_size = NoBatch
    /\ h.list_ok /\ h.db_ok /\ ~h.aborted
    /\ h.errors = 0

\* C3: right after a clean pass the active event ids of the store for the
\* calendar are the event ids on the remote calendar.
C3_Convergence ==
    (Len(hist) > 0 /\ CleanPass(hist[Len(hist)])) =>
        ActiveIds(rows, "work") = get_calendar_events(remote, "work", TRUE)

\* C4: a clean pass that directly follows a clean pass issues no remote
\* create and no remote delete.
C4_SecondPassQuiet ==
    \A n \in DOMAIN hist :
        (n > 1 /\ CleanPass(hist[n - 1]) /\ CleanPass(hist[n])) =>
            (hist[n].create_calls = 0 /\ hist[n].delete_calls = 0)

(***************************************************************************)
(* WorkCalendarReconciler.reconcile_orphaned_mirrors: the sweep that       *)
(* removes the mirrors of the work calendar whose source is soft-deleted,  *)
(* and UnifiedCalendarSync.handle_orphaned_mirrors, which only marks them. *)
(***************************************************************************)
max_retries == 3

\* What the service answers to one events().delete attempt: success, 404 or
\* 410, 429 / rateLimitExceeded, a 5xx, or another HTTP error.
Responses == {"ok", "gone", "rate_limit", "server_error", "forbidden"}

\* The answers the service can give for an event that is, or is not, on the
\* calendar.
ResponsesFor(here) == IF here THEN Responses \ {"gone"} ELSE Responses \ {"ok"}

\* The answers to the attempts of one call.  The loop asks for no answer
\* after one that ends it, so the answers past that one repeat it.
ResponseRuns ==
    {resp \in [1..max_retries -> Responses] :
        \A n \in 1..(max_retries - 1) :
            resp[n] \notin {"rate_limit", "server_error"} => resp[n + 1] = resp[n]}

\* _api_call_with_retry from attempt on, resp[n] the answer to attempt n:
\* "result" for the call's result, "None", or "raise".
RECURSIVE api_call_with_retry(_, _)
api_call_with_retry(resp, attempt) ==
    IF attempt > max_retries THEN "None"
    ELSE IF resp[attempt] = "ok" THEN "result"
    ELSE IF resp[attempt] = "gone" THEN "None"
    ELSE IF resp[attempt] \in {"rate_limit", "server_error"}
         THEN api_call_with_retry(resp, attempt + 1)
    ELSE "raise"

\* The mirrors the sweep checks: active rows of the calendar that carry a
\* source_event_id and a source_calendar.
ActiveMirrors(rs, calendar_id) ==
    {i \in DOMAIN rs : /\ rs[i].cal = calendar_id
                       /\ ~rs[i].deleted
                       /\ rs[i].status = "active"
                       /\ rs[i].src # NoSrc
                       /\ rs[i].source_cal # ""}

\* SELECT deleted_at ... WHERE event_id = :source_id AND current_calendar =
\* :source_cal LIMIT 1: whether the value read is not None, for each row the
\* query may return (FALSE when no row matches).
SourceDeleted(rs, source_id, source_cal) ==
    LET hit == {i \in DOMAIN rs : rs[i].event_id = source_id /\ rs[i].cal = source_cal}
    IN  IF hit = {} THEN {FALSE} ELSE {rs[i].deleted : i \in hit}

\* Every row of the source is soft-deleted.
SourceGone(rs, source_id, source_cal) == SourceDeleted(rs, source_id, source_cal) = {TRUE}

SweepLog(event_id, source_gone, orphaned, action) ==
    [event_id |-> event_id, source_gone |-> source_gone, orphaned |-> orphaned,
     action |-> action]

\* The loop of reconcile_orphaned_mirrors over the mirrors M (by position),
\* in the order of the rows.  deleted[i] is what the source lookup of mirror
\* i read, resp[i] the service's answers to the delete attempts.
RECURSIVE SweepMirrors(_, _, _, _)
SweepMirrors(st, M, deleted, resp) ==
    IF M = {} THEN st
    ELSE LET i == CHOOSE x \in M : \A y \in M : x <= y
             mirror == st.rows[i]
             gone == SourceGone(st.rows, mirror.src, mirror.source_cal)
             delete_result == api_call_with_retry(resp[i], 1)
             action == IF delete_result = "None" THEN "already_removed"
                       ELSE IF delete_result = "result" THEN "orphaned_mirror_removed"
                       ELSE "orphaned_mirror_cleanup_failed"
             st1 == IF deleted[i]
                    THEN BodyState(
                            SoftDelete(st.rows, mirror.event_id, "work", action),
                            IF delete_result = "result"
                            THEN DeleteRemote(st.remote, "work", mirror.event_id)
                            ELSE st.remote,
                            st.nextId,
                            Append(st.log, SweepLog(mirror.event_id, gone, TRUE, action)))
                    ELSE BodyState(st.rows, st.remote, st.nextId,
                            Append(st.log, SweepLog(mirror.event_id, gone, FALSE, "none")))
         IN  SweepMirrors(st1, M \ {i}, deleted, resp)

\* get_session: the block's writes are committed when the block ends, and
\* rolled back when an exception leaves it.
get_session(before, after, committed) == IF committed THEN after ELSE before

\* reconcile_orphaned_mirrors.  The loop runs in one session, committed after
\* the last mirror.  stop is the mirror at which the pass ends early, its
\* UPDATE failing or the process interrupted after its remote delete: the
\* exception leaves the with block; NoRow for a pass that reaches the commit.
reconcile_orphaned_mirrors ==
    LET mirrors == ActiveMirrors(rows, "work")
    IN  /\ mirrors # {}
        /\ \E deleted \in [mirrors -> BOOLEAN], stop \in mirrors \cup {NoRow} :
            /\ \A i \in mirrors :
                deleted[i] \in SourceDeleted(rows, rows[i].src, rows[i].source_cal)
            /\ \E resp \in [mirrors -> ResponseRuns] :
                /\ \A i \in mirrors : \A n \in 1..max_retries :
                    resp[i][n] \in ResponsesFor(OnRemote(remote, "work", rows[i].event_id))
                /\ LET reached == IF stop = NoRow THEN mirrors
                                  ELSE {i \in mirrors : i <= stop}
                       st == SweepMirrors(BodyState(rows, remote, nextId, <<>>),
                                          reached, deleted, resp)
                   IN  /\ rows' = get_session(rows, st.rows, stop = NoRow)
                       /\ remote' = st.remote
                       /\ last' = st.log
        /\ UNCHANGED <<pending, nextId, hist>>

\* The selection with last_action = 'deleted' in place of the NOT IN list
get_deleted_events_from_db_marked(rs) ==
    {i \in DOMAIN rs : /\ rs[i].cal = "work"
                       /\ rs[i].deleted
                       /\ rs[i].status = "deleted"
                       /\ rs[i].last_action = "deleted"}

\* get_deleted_events_from_db: the soft-deleted rows of the work calendar
\* whose last_action is neither removed_from_google nor already_removed.
get_deleted_events_from_db(rs) ==
    {i \in DOMAIN rs : /\ rs[i].cal = "work"
                       /\ rs[i].deleted
                       /\ rs[i].status = "deleted"
                       /\ rs[i].last_action \notin {"removed_from_google", "already_removed"}}

\* _mark_event_removed: UPDATE ... SET last_action WHERE event_id AND
\* current_calendar = work calendar.
mark_event_removed(rs, event_id, action) == SetLastAction(rs, event_id, "work", action)

\* The delete attempts all ended in a rate limit or a 5xx.
RetriesExhausted(resp) == \A n \in 1..max_retries : resp[n] \in {"rate_limit", "server_error"}

\* What reconcile_deleted_events did with one row: whether the retries of
\* its delete were exhausted, what the call gave, the local_stats counter
\* raised and the last_action written ("none" when nothing was written).
DeleteLog(event_id, exhausted, result, counted, marked) ==
    [event_id |-> event_id, exhausted |-> exhausted, result |-> result,
     counted |-> counted, marked |-> marked]

\* The loop of reconcile_deleted_events over the rows D (by position), in
\* the order of the rows; resp[i] the service's answers to the delete
\* attempts for row i.
RECURSIVE RemoveDeleted(_, _, _)
RemoveDeleted(st, D, resp) ==
    IF D = {} THEN st
    ELSE LET i == CHOOSE x \in D : \A y \in D : x <= y
             event_id == st.rows[i].event_id
             result == api_call_with_retry(resp[i], 1)
             counted == IF result = "None" THEN "already_gone"
                        ELSE IF result = "result" THEN "removed"
                        ELSE "errors"
             marked == IF result = "None" THEN "already_removed"
                       ELSE IF result = "result" THEN "removed_from_google"
                       ELSE "none"
             st1 == BodyState(
                        IF marked = "none" THEN st.rows
                        ELSE mark_event_removed(st.rows, event_id, marked),
                        IF result = "result"
                        THEN DeleteRemote(st.remote, "work", event_id)
                        ELSE st.remote,
                        st.nextId,
                        Append(st.log, DeleteLog(event_id, RetriesExhausted(resp[i]),
                                                 result, counted, marked)))
         IN  RemoveDeleted(st1, D \ {i}, resp)

\* reconcile_deleted_events; hist keeps what its latest run did.
reconcile_deleted_events ==
    LET deleted_events == get_deleted_events_from_db(rows)
    IN  /\ deleted_events # {}
        /\ \E resp \in [deleted_events -> ResponseRuns] :
            /\ \A i \in deleted_events : \A n \in 1..max_retries :
                resp[i][n] \in ResponsesFor(OnRemote(remote, "work", rows[i].event_id))
            /\ LET st == RemoveDeleted(BodyState(rows, remote, nextId, <<>>),
                                       deleted_events, resp)
               IN  /\ rows' = st.rows
                   /\ remote' = st.remote
                   /\ hist' = st.log
        /\ UNCHANGED <<pending, nextId, last>>

\* The loop of handle_orphaned_mirrors without the test of dry_run.
RECURSIVE MarkOrphansLive(_, _, _, _)
MarkOrphansLive(rs, M, deleted, dry_run) ==
    IF M = {} THEN rs
    ELSE LET i == CHOOSE x \in M : \A y \in M : x <= y
         IN  MarkOrphansLive(IF deleted[i]
                             THEN SoftDelete(rs, rs[i].event_id, rs[i].cal, "source_deleted_orphan")
                             ELSE rs,
                             M \ {i}, deleted, dry_run)

\* The loop of handle_orphaned_mirrors: mark the mirror deleted with
\* last_action = source_deleted_orphan, unless dry_run.
RECURSIVE MarkOrphans(_, _, _, _)
MarkOrphans(rs, M, deleted, dry_run) ==
    IF M = {} THEN rs
    ELSE LET i == CHOOSE x \in M : \A y \in M : x <= y
         IN  MarkOrphans(IF deleted[i] /\ ~dry_run
                         THEN SoftDelete(rs, rs[i].event_id, rs[i].cal, "source_deleted_orphan")
                         ELSE rs,
                         M \ {i}, deleted, dry_run)

handle_orphaned_mirrors ==
    LET mirrors == UNION {ActiveMirrors(rows, c) : c \in Calendars}
    IN  /\ mirrors # {}
        /\ \E dry_run \in BOOLEAN, deleted \in [mirrors -> BOOLEAN] :
            /\ \A i \in mirrors :
                deleted[i] \in SourceDeleted(rows, rows[i].src, rows[i].source_cal)
            /\ rows' = MarkOrphans(rows, mirrors, deleted, dry_run)
        /\ last' = <<>>
        /\ UNCHANGED <<pending, remote, nextId, hist>>

\* The scanner finds a source event gone from its calendar and soft-deletes
\* its row.
OrphanSourceDeleted ==
    /\ \E i \in DOMAIN rows :
        /\ rows[i].src = NoSrc
        /\ ~rows[i].deleted
        /\ rows' = detect_deletions(rows, rows[i].cal, {})
    /\ last' = <<>>
    /\ UNCHANGED <<pending, remote, nextId, hist>>

\* A source row is soft-deleted by mark_as_deleted.
OrphanMarkDeleted ==
    /\ \E i \in DOMAIN rows :
        /\ rows[i].src = NoSrc
        /\ ~rows[i].deleted
        /\ rows' = mark_as_deleted(rows, rows[i].event_id, rows[i].cal)
    /\ last' = <<>>
    /\ UNCHANGED <<pending, remote, nextId, hist>>

\* A mirror of the source row e on the work calendar, as upsert_mirror_event
\* stored it.
WorkMirrorRow(e, id, event_type) ==
    NewRow(id, e.ical_uid, "Busy", e.start, "work", e.cal, event_type, e.event_id, e.cal, "created")

\* The stores the sweep may start from: the two sources, each with or
\* without its mirror on the work calendar, the mirrors' events on the remote
\* calendar or already gone from it.
OrphanStores ==
    {<<PersonalRow, ClassRow>> \o m1 \o m2 :
        m1 \in {<<>>, <<WorkMirrorRow(PersonalRow, 4, "personal_work_mirror")>>},
        m2 \in {<<>>, <<WorkMirrorRow(ClassRow, 5, "subcalendar_work_mirror")>>}}

InitOrphan ==
    /\ rows \in OrphanStores
    /\ remote \in SUBSET {RemoteEvent(4, 4, "work", 1, "Busy", 1),
                          RemoteEvent(5, 5, "work", 2, "Busy", 1)}
    /\ nextId = 6
    /\ pending = [p \in Procs |-> Idle]
    /\ hist = <<>>
    /\ last = <<>>
    /\ locks = NoLocks
    /\ engine = OneEngine

NextOrphan ==
    /\ \/ OrphanSourceDeleted
       \/ reconcile_orphaned_mirrors
       \/ handle_orphaned_mirrors
       \/ reconcile_deleted_events
       \/ OrphanMarkDeleted
    /\ UNCHANGED lockVars

SpecOrphan == InitOrphan /\ [][NextOrphan]_vars

\* C5: when the sweep has returned, every mirror whose source was
\* soft-deleted when the sweep ran is gone from the remote calendar and its
\* row is soft-deleted with last_action = orphaned_mirror_removed.
C5_CascadingDeletion ==
    \A n \in DOMAIN last :
        last[n].source_gone =>
            /\ ~OnRemote(remote, "work", last[n].event_id)
            /\ \E i \in DOMAIN rows : /\ rows[i].event_id = last[n].event_id
                                      /\ rows[i].cal = "work"
                                      /\ rows[i].deleted
                                      /\ rows[i].status = "deleted"
                                      /\ rows[i].last_action = "orphaned_mirror_removed"

(***************************************************************************)
(* DatabaseManager.advisory_lock around the work-calendar mirror block of  *)
(* mirror_calendar, for one source event: workers that run the block for   *)
(* the same key "mirror:<event_id>:<calendar>" at the same time.           *)
(*                                                                         *)
(* A worker's lock id is hash(key) % (2**31 - 1).  Python salts str hashes *)
(* per process, so workers of one process compute one id and workers of    *)
(* different processes compute ids that need not agree.  pg_advisory_lock  *)
(* is a session-level lock: it belongs to the connection, is re-entrant    *)
(* for it, and survives rollback and the connection's return to the pool.  *)
(***************************************************************************)
MaxConns == 2       \* pooled connections per operating-system process
MaxRuns == 2        \* critical sections one worker enters

\* The processes the workers may run in and the lock ids they compute.
Engines ==
    {e \in [Procs -> [os : Procs, lock_id : LockIds]] :
        \A p, q \in Procs : e[p].os = e[q].os => e[p].lock_id = e[q].lock_id}

Worker(pc, conn, runs, rid) == [pc |-> pc, conn |-> conn, runs |-> runs, rid |-> rid]

\* Inside "with self.db.advisory_lock(lock_key):"
InCS(w) == w.pc \in {"find", "create", "upsert", "unlock"}

\* self.SessionLocal(): a connection of the worker's process that no session
\* has checked out
FreeConns(p) ==
    {c \in {engine[p].os} \X (1..MaxConns) :
        \A q \in Procs : ~((InCS(pending[q]) \/ pending[q].pc = "wait") /\ pending[q].conn = c)}

\* advisory_lock up to the call of pg_advisory_lock: the session takes a
\* connection of the pool and asks for the lock on it.
LockRequest(p) ==
    /\ pending[p].pc = "idle"
    /\ pending[p].runs < MaxRuns
    /\ \E c \in FreeConns(p) :
        pending' = [pending EXCEPT ![p] = Worker("wait", c, @.runs, NoEvent)]
    /\ UNCHANGED <<rows, remote, nextId, hist, last, locks, engine>>

\* SELECT pg_advisory_lock(:lock_id): granted when no session or this session
\* holds the lock, else the call blocks.
LockAcquire(p) ==
    /\ pending[p].pc = "wait"
    /\ LET id == engine[p].lock_id
           c == pending[p].conn
       IN  /\ locks[id].count = 0 \/ locks[id].owner = c
           /\ locks' = [locks EXCEPT ![id] = [owner |-> c, count |-> @.count + 1]]
           /\ pending' = [pending EXCEPT ![p] = Worker("find", c, @.runs, NoEvent)]
    /\ UNCHANGED <<rows, remote, nextId, hist, last, engine>>

\* find_mirror_on_google_calendar inside the lock
LockFind(p) ==
    /\ pending[p].pc = "find"
    /\ \E f \in FindChoices(remote, PersonalRow.event_id, "work", BusyQuery("Busy"),
                            PersonalRow.start) :
        pending' = [pending EXCEPT ![p] =
                        Worker(IF f # NoEvent THEN "upsert" ELSE "create", @.conn, @.runs, f)]
    /\ UNCHANGED <<rows, remote, nextId, hist, last, locks, engine>>

\* create_mirror_event inside the lock: the event is created; or HttpError,
\* which the method turns into None; or another exception, which leaves the
\* "with" block through advisory_lock's except branch: rollback, re-raise,
\* close, and no pg_advisory_unlock.
LockCreate(p) ==
    /\ pending[p].pc = "create"
    /\ \E out \in CreateOutcomes :
        IF out = "ok"
        THEN /\ remote' = InsertRemote(remote, nextId, "work", PersonalRow.event_id, "Busy",
                                       PersonalRow.start)
             /\ nextId' = nextId + 1
             /\ pending' = [pending EXCEPT ![p] = Worker("upsert", @.conn, @.runs, nextId)]
        ELSE IF out = "http_error"
        THEN /\ pending' = [pending EXCEPT ![p] = Worker("unlock", @.conn, @.runs, NoEvent)]
             /\ UNCHANGED <<remote, nextId>>
        ELSE /\ pending' = [pending EXCEPT ![p] = Worker("idle", NoConn, @.runs + 1, NoEvent)]
             /\ UNCHANGED <<remote, nextId>>
    /\ UNCHANGED <<rows, hist, last, locks, engine>>

\* upsert_mirror_event inside the lock
LockUpsert(p) ==
    /\ pending[p].pc = "upsert"
    /\ rows' = upsert_mirror_event(rows,
                    NewRow(pending[p].rid, PersonalRow.ical_uid, "Busy", PersonalRow.start,
                           "work", "personal", "personal_work_mirror", PersonalRow.event_id,
                           "personal", "created"))
    /\ pending' = [pending EXCEPT ![p] = Worker("unlock", @.conn, @.runs, @.rid)]
    /\ UNCHANGED <<remote, nextId, hist, last, locks, engine>>

\* SELECT pg_advisory_unlock(:lock_id), commit, close
LockRelease(p) ==
    /\ pending[p].pc = "unlock"
    /\ LET id == engine[p].lock_id
       IN  locks' = [locks EXCEPT ![id] =
                        IF @.count > 1 THEN [@ EXCEPT !.count = @ - 1]
                        ELSE [owner |-> NoConn, count |-> 0]]
    /\ pending' = [pending EXCEPT ![p] = Worker("idle", NoConn, @.runs + 1, NoEvent)]
    /\ UNCHANGED <<rows, remote, nextId, hist, last, engine>>

InitLock ==
    /\ rows = <<PersonalRow>>
    /\ remote = {RemoteEvent(1, 1, "personal", NoSrc, "A", 1)}
    /\ nextId = 4
    /\ pending = [p \in Procs |-> Worker("idle", NoConn, 0, NoEvent)]
    /\ hist = <<>>
    /\ last = <<>>
    /\ locks = NoLocks
    /\ engine \in Engines

NextLock ==
    \E p \in Procs :
        \/ LockRequest(p)
        \/ LockAcquire(p)
        \/ LockFind(p)
        \/ LockCreate(p)
        \/ LockUpsert(p)
        \/ LockRelease(p)

SpecLock == InitLock /\ [][NextLock]_vars

\* C6: no two workers are inside the critical section of the same key at
\* the same time.
C6_MutualExclusion ==
    \A p, q \in Procs : p # q => ~(InCS(pending[p]) /\ InCS(pending[q]))

\* C7: a lock is held only by the session of a worker that is inside the
\* advisory_lock context: once the context is left, normally or by an
\* exception, the lock is free.
C7_LockReleased ==
    \A id \in LockIds :
        locks[id].count > 0 =>
            \E p \in Procs : /\ InCS(pending[p])
                             /\ engine[p].lock_id = id
                             /\ pending[p].conn = locks[id].owner

\* C11: every mirror block that ended adopted, created or with a failed
\* remote create has done exactly one store upsert and at most one
\* remote-create call.
C11_OneUpsertPerCall ==
    \A n \in DOMAIN last :
        last[n].result \in {"adopted", "created", "error"} =>
            (last[n].upserts = 1 /\ last[n].creates <= 1)

\* C12: in every pass all remote delete calls come before the first remote
\* create call.
C12_DeletesBeforeCreates ==
    \A n \in DOMAIN hist :
        IsPass(hist[n]) =>
            \A i, j \in DOMAIN hist[n].calls :
                (hist[n].calls[i] = "create" /\ hist[n].calls[j] = "delete") => j < i

\* C12's case: a pass with a batch limit that issued deletes and creates.
C12_Witness ==
    \E n \in DOMAIN hist :
        /\ IsPass(hist[n])
        /\ hist[n].batch_size # NoBatch
        /\ hist[n].delete_calls > 0
        /\ hist[n].create_calls > 0

\* C13: a pass deletes as stale no remote event whose id belongs to an
\* active row of the calendar, and soft-deletes no row.
C13_StaleExcludesDbIds ==
    \A n \in DOMAIN hist :
        IsPass(hist[n]) =>
            /\ hist[n].stale_deleted \cap hist[n].active_before = {}
            /\ hist[n].soft_deleted = {}

\* C14: a failed remote create or delete never aborts the pass, and every
\* failed call is counted in the errors of the pass's report.
C14_ItemFailureIsolated ==
    \A n \in DOMAIN hist :
        IsPass(hist[n]) =>
            (~hist[n].aborted /\ hist[n].errors = hist[n].failures)

\* C15: a pass whose store query or remote listing failed issues no remote
\* create and no remote delete.
C15_QueryFailureAborts ==
    \A n \in DOMAIN hist :
        (IsPass(hist[n]) /\ (~hist[n].db_ok \/ ~hist[n].list_ok)) =>
            (hist[n].create_calls = 0 /\ hist[n].delete_calls = 0)

\* ---------------------------------------------------------------------
\* One call of _api_call_with_retry, attempt by attempt
\* ---------------------------------------------------------------------

\* The answers one attempt can get: those of the service, or an error that
\* is not an HttpError.
Answers == Responses \cup {"exception"}

\* A loop that goes on after every failed attempt
ShouldRetryAny(r) == r \notin {"ok", "gone"}

\* The answers after which the loop backs off and goes on to the next
\* attempt: 429 / rateLimitExceeded and 5xx.
ShouldRetry(r) == r \in {"rate_limit", "server_error"}

\* The call in progress: the answers the attempts would get, the attempts
\* made, and how the call ended ("running" until then).
RetryCall(resp, made, outcome) == [resp |-> resp, made |-> made, outcome |-> outcome]

\* One iteration of "for attempt in range(self.max_retries)": the request
\* is executed and its answer handled; after the last iteration the loop is
\* left and None returned.
api_call_attempt ==
    /\ last.outcome = "running"
    /\ last.made < max_retries
    /\ LET attempt == last.made + 1
           r == last.resp[attempt]
       IN  last' = RetryCall(last.resp, attempt,
                        IF r = "ok" THEN "result"
                        ELSE IF r = "gone" THEN "None"
                        ELSE IF ShouldRetry(r)
                             THEN (IF attempt = max_retries THEN "None" ELSE "running")
                        ELSE "raise")

\* A call whose attempts can get any answers, as many as are asked for
InitRetry ==
    /\ rows = <<>>
    /\ pending = <<>>
    /\ remote = {}
    /\ nextId = 1
    /\ hist = <<>>
    /\ \E resp \in [1..(max_retries + 1) -> Answers] : last = RetryCall(resp, 0, "running")
    /\ locks = NoLocks
    /\ engine = OneEngine

NextRetry ==
    /\ api_call_attempt
    /\ UNCHANGED <<storeVars, remoteVars, hist, lockVars>>

SpecRetry == InitRetry /\ [][NextRetry]_vars

C17_ExhaustedIsError ==
    \A n \in DOMAIN hist :
        hist[n].exhausted => (hist[n].counted = "errors" /\ hist[n].marked = "none")

\* C18: no pass of the reconciler and no removal sweep of the scanner calls
\* the remote delete for a soft-deleted row that carried removed_from_google
\* or already_removed when the pass or sweep began.
C18_SettledNotDeletedAgain ==
    last # <<>> => last.called \cap last.settled = {}

\* ---------------------------------------------------------------------
\* fix_data_inconsistencies over stores that hold inconsistent rows
\* ---------------------------------------------------------------------

\* fix_data_inconsistencies: UPDATE ... SET status = 'deleted' WHERE
\* deleted_at IS NOT NULL AND status != 'deleted' AND current_calendar =
\* :work_calendar
FixStatus(rs) ==
    [i \in DOMAIN rs |->
        IF rs[i].deleted /\ rs[i].status # "deleted" /\ rs[i].cal = "work"
        THEN [rs[i] EXCEPT !.status = "deleted"]
        ELSE rs[i]]

\* The rows the UPDATE changes (result.rowcount)
Fixable(rs) ==
    {i \in DOMAIN rs : rs[i].deleted /\ rs[i].status # "deleted" /\ rs[i].cal = "work"}

\* last tells that the sweep has just run, and what it returned.
fix_data_inconsistencies ==
    /\ rows' = FixStatus(rows)
    /\ last' = [fixed |-> Cardinality(Fixable(rows))]
    /\ UNCHANGED <<pending, remote, nextId, hist>>

\* A live row is soft-deleted between two sweeps.
RepairMarkDeleted ==
    /\ \E i \in DOMAIN rows :
        /\ ~rows[i].deleted
        /\ rows' = mark_as_deleted(rows, rows[i].event_id, rows[i].cal)
    /\ last' = <<>>
    /\ UNCHANGED <<pending, remote, nextId, hist>>

\* A row with any deleted_at and any status, as drift may leave it
DriftRow(id, cal, deleted, status) ==
    [NewRow(id, id, "A", 1, cal, cal, "other", NoSrc, "", "scanned")
        EXCEPT !.deleted = deleted, !.status = status]

DriftRows(id) ==
    {DriftRow(id, cal, deleted, status) :
        cal \in {"work", "personal"}, deleted \in BOOLEAN, status \in {"active", "deleted"}}

InitRepair ==
    /\ rows \in {<<r1>> : r1 \in DriftRows(1)}
                \cup {<<r1, r2>> : r1 \in DriftRows(1), r2 \in DriftRows(2)}
    /\ pending = <<>>
    /\ remote = {}
    /\ nextId = 3
    /\ hist = <<>>
    /\ last = <<>>
    /\ locks = NoLocks
    /\ engine = OneEngine

NextRepair ==
    /\ \/ fix_data_inconsistencies
       \/ RepairMarkDeleted
    /\ UNCHANGED lockVars

SpecRepair == InitRepair /\ [][NextRepair]_vars

\* C19: when fix_data_inconsistencies has just run, every row of the work
\* calendar has status = deleted exactly when its deleted_at is set.
C19_RepairBothDirections ==
    last # <<>> =>
        \A i \in DOMAIN rows :
            rows[i].cal = "work" => (rows[i].status = "deleted" <=> rows[i].deleted)

\* C20: every row whose deleted_at is set has status = deleted.
C20_DeletedAtImpliesStatus ==
    \A i \in DOMAIN rows : rows[i].deleted => rows[i].status = "deleted"

\* C20's case: the scanner's deletion detection, mark_as_deleted and an
\* orphan sweep have each soft-deleted a row.
C20_Witness ==
    /\ \E i \in DOMAIN rows : rows[i].deleted /\ rows[i].last_action = "scanner_detected_deletion"
    /\ \E i \in DOMAIN rows : rows[i].deleted /\ rows[i].last_action = "deleted"
    /\ \E i \in DOMAIN rows :
        /\ rows[i].deleted
        /\ rows[i].last_action \in {"orphaned_mirror_removed", "already_removed",
                                    "orphaned_mirror_cleanup_failed", "source_deleted_orphan"}

\* C21: no step removes a row from the store, and no step clears the
\* deleted_at of a row on which it is set: the rows keep their places and
\* their event ids, and a soft-deleted row stays soft-deleted.
C21_SoftDeletePermanent ==
    [][/\ Len(rows') >= Len(rows)
       /\ \A i \in DOMAIN rows :
            /\ rows'[i].event_id = rows[i].event_id
            /\ rows'[i].cal = rows[i].cal
            /\ rows[i].deleted => rows'[i].deleted]_vars

\* C21's case: an event whose row was soft-deleted was recorded again and
\* has a second, live row.
C21_Witness ==
    \E i, j \in DOMAIN rows :
        /\ i < j
        /\ rows[i].event_id = rows[j].event_id
        /\ rows[i].cal = rows[j].cal
        /\ rows[i].deleted
        /\ ~rows[j].deleted

(***************************************************************************)
(* TwentyFiveLiveSync: one instance syncing 25Live reservations to the     *)
(* calendars its configuration names.  engine is the instance (calendars,  *)
(* ALLOWED_WRITE_CALENDARS, processed_events, existing_events), hist the   *)
(* runs of sync_calendar_type, last what the latest run did with each      *)
(* reservation.                                                            *)
(***************************************************************************)
CalendarTypes == {"Classes", "GFU Events", "Other"}

work_calendar == "work"

FORBIDDEN_WRITE_CALENDARS == {"personal"}

\* CALENDAR_MAPPINGS, or the content of work_subcalendars.json
CalendarMappings ==
    {[t \in CalendarTypes |->
        IF t = "Classes" THEN c ELSE IF t = "GFU Events" THEN g ELSE "work"] :
        c \in {"classes", "personal"}, g \in {"sub", "personal"}}

\* The reservations 25Live may return, as the calendar events
\* reservation_to_calendar_event makes of them.
Reservations == <<[summary |-> "A", start |-> 1], [summary |-> "B", start |-> 1]>>

\* A check that lets every calendar through
validate_calendar_write_any(inst, calendar_id) == TRUE

\* _validate_calendar_write: FALSE where the method raises ValueError.
validate_calendar_write(inst, calendar_id) ==
    /\ calendar_id \notin FORBIDDEN_WRITE_CALENDARS
    /\ calendar_id \in inst.ALLOWED_WRITE_CALENDARS

\* The md5 of "start-end-summary-location", by the fields it is made of
\* (the reservations here have one end and one location).
EventSignature(ev) == <<ev.start, ev.summary>>

\* load_existing_events: the cache entry of the calendar, filled from the
\* listing at the first call for the calendar ({} when the listing fails) and
\* kept from then on.
load_existing_events(inst, rem, calendar_id, list_ok) ==
    IF calendar_id \in DOMAIN inst.existing_events THEN inst
    ELSE [inst EXCEPT !.existing_events =
            [c \in DOMAIN @ \cup {calendar_id} |->
                IF c = calendar_id
                THEN (IF list_ok
                      THEN {EventSignature(ev) : ev \in {x \in rem : x.cal = calendar_id}}
                      ELSE {})
                ELSE @[c]]]

\* is_duplicate_event: "existing" or "processed" where it returns True,
\* "none" where it adds the signature to processed_events and returns False.
is_duplicate_event(inst, calendar_id, ev) ==
    IF /\ calendar_id \in DOMAIN inst.existing_events
       /\ EventSignature(ev) \in inst.existing_events[calendar_id]
    THEN "existing"
    ELSE IF EventSignature(ev) \in inst.processed_events THEN "processed"
    ELSE "none"

Step(kind, cal) == [kind |-> kind, cal |-> cal]

\* The calendars a create writes to: create_gfu_event_with_mirror and
\* create_classes_event_with_mirror write to the calendar and to the work
\* calendar, create_calendar_event to the calendar.
WriteCalendars(calendar_type, calendar_id) ==
    IF calendar_type \in {"GFU Events", "Classes"}
    THEN <<calendar_id, work_calendar>>
    ELSE <<calendar_id>>

TFOutcomes == {"ok", "http_error", "mirror_http_error"}

\* create_calendar_event, create_gfu_event_with_mirror and
\* create_classes_event_with_mirror: the validations, then the inserts; a
\* ValueError or an HttpError ends the call with False.  The result holds
\* the remote calendars, the next fresh id, the steps taken and what the
\* call returned.
create_event(inst, rem, nid, calendar_type, calendar_id, ev, out) ==
    LET cals == WriteCalendars(calendar_type, calendar_id)
        bad == {n \in DOMAIN cals : ~validate_calendar_write(inst, cals[n])}
        stop == IF bad = {} THEN Len(cals) ELSE CHOOSE n \in bad : \A m \in bad : n <= m
        checks == [n \in 1..stop |-> Step("validate", cals[n])]
        tried == IF out = "http_error" THEN 1
                 ELSE IF out = "mirror_http_error" THEN Min(2, Len(cals))
                 ELSE Len(cals)
        done == IF out = "ok" THEN Len(cals)
                ELSE IF out = "mirror_http_error" THEN Min(2, Len(cals)) - 1
                ELSE 0
        inserted == {RemoteEvent(nid + n - 1, nid + n - 1, cals[n], NoSrc, ev.summary, ev.start) :
                        n \in 1..done}
    IN  IF bad # {}
        THEN [remote |-> rem, nextId |-> nid, steps |-> checks,
              violation |-> TRUE, created |-> FALSE]
        ELSE [remote |-> rem \cup inserted, nextId |-> nid + done,
              steps |-> checks \o [n \in 1..tried |-> Step("insert", cals[n])],
              violation |-> FALSE, created |-> out = "ok"]

\* What the run did with one reservation
ItemLog(res, calendar_id, duplicate, steps, violation, created) ==
    [res |-> res, cal |-> calendar_id, duplicate |-> duplicate, steps |-> steps,
     violation |-> violation, created |-> created]

\* The loop of sync_calendar_type over the reservations R (positions in
\* Reservations), in their order.
RECURSIVE SyncReservations(_, _, _, _, _)
SyncReservations(st, calendar_type, calendar_id, R, out) ==
    IF R = {} THEN st
    ELSE LET i == CHOOSE x \in R : \A y \in R : x <= y
             ev == Reservations[i]
             dup == is_duplicate_event(st.inst, calendar_id, ev)
             inst1 == IF dup = "none"
                      THEN [st.inst EXCEPT !.processed_events = @ \cup {EventSignature(ev)}]
                      ELSE st.inst
             c == create_event(inst1, st.remote, st.nextId, calendar_type, calendar_id,
                               ev, out[i])
             st1 == IF dup # "none"
                    THEN [st EXCEPT !.log = Append(@,
                            ItemLog(i, calendar_id, dup, <<>>, FALSE, FALSE))]
                    ELSE [inst |-> inst1, remote |-> c.remote, nextId |-> c.nextId,
                          log |-> Append(st.log,
                            ItemLog(i, calendar_id, dup, c.steps, c.violation, c.created))]
         IN  SyncReservations(st1, calendar_type, calendar_id, R \ {i}, out)

\* sync_calendar_type: one run for one calendar type.
sync_calendar_type ==
    /\ Len(hist) < MaxPasses
    /\ \E calendar_type \in CalendarTypes, list_ok \in BOOLEAN,
          R \in SUBSET DOMAIN Reservations :
        /\ R # {}
        /\ \E out \in [R -> TFOutcomes] :
            LET calendar_id == engine.calendars[calendar_type]
                inst0 == load_existing_events(engine, remote, calendar_id, list_ok)
                st == SyncReservations([inst |-> inst0, remote |-> remote,
                                        nextId |-> nextId, log |-> <<>>],
                                       calendar_type, calendar_id, R, out)
            IN  /\ \A i \in R : out[i] = "mirror_http_error" =>
                                    Len(WriteCalendars(calendar_type, calendar_id)) = 2
                /\ engine' = st.inst
                /\ remote' = st.remote
                /\ nextId' = st.nextId
                /\ last' = st.log
                /\ hist' = Append(hist, [calendar_type |-> calendar_type,
                                         before |-> engine.processed_events])
    /\ UNCHANGED <<rows, pending, locks>>

\* load_calendar_config: the calendars of the file become the instance's
\* and are added to ALLOWED_WRITE_CALENDARS; the check for forbidden ones
\* raises after that.
load_calendar_config ==
    /\ \E m \in CalendarMappings :
        engine' = [engine EXCEPT !.calendars = m,
                                 !.ALLOWED_WRITE_CALENDARS =
                                    @ \cup {m[t] : t \in CalendarTypes}]
    /\ UNCHANGED <<rows, pending, remote, nextId, hist, last, locks>>

\* __init__: the work calendar alone is allowed, nothing is processed or
\* cached.
InitTwentyFive ==
    /\ rows = <<>>
    /\ pending = <<>>
    /\ remote = {}
    /\ nextId = 1
    /\ hist = <<>>
    /\ last = <<>>
    /\ locks = NoLocks
    /\ \E m \in CalendarMappings :
        engine = [calendars |-> m, ALLOWED_WRITE_CALENDARS |-> {work_calendar},
                  processed_events |-> {}, existing_events |-> <<>>]

NextTwentyFive ==
    \/ sync_calendar_type
    \/ load_calendar_config

SpecTwentyFive == InitTwentyFive /\ [][NextTwentyFive]_vars

\* C22: in every create the validations precede the inserts, no insert goes
\* to a calendar that is forbidden or outside the allow-list, and a create
\* that hit such a calendar made no insert on any calendar and stopped at the
\* failed validation.
C22_SecurityViolationFatal ==
    \A n \in DOMAIN last :
        LET steps == last[n].steps
        IN  /\ \A i, j \in DOMAIN steps :
                (steps[i].kind = "insert" /\ steps[j].kind = "validate") => j < i
            /\ \A i \in DOMAIN steps :
                steps[i].kind = "insert" =>
                    /\ steps[i].cal \notin FORBIDDEN_WRITE_CALENDARS
                    /\ steps[i].cal \in engine.ALLOWED_WRITE_CALENDARS
            /\ last[n].violation =>
                /\ \A i \in DOMAIN steps : steps[i].kind = "validate"
                /\ ~last[n].created
                /\ \A m \in DOMAIN last : last[m].res = last[n].res => m = n

\* C22's case: a two-calendar create whose subcalendar is forbidden although
\* the configuration put it on the allow-list; nothing was written for it,
\* on the subcalendar or on the work calendar.
C22_Witness ==
    /\ hist # <<>>
    /\ hist[Len(hist)].calendar_type \in {"Classes", "GFU Events"}
    /\ \E n \in DOMAIN last :
        /\ last[n].violation
        /\ last[n].cal \in FORBIDDEN_WRITE_CALENDARS
        /\ last[n].cal \in engine.ALLOWED_WRITE_CALENDARS
        /\ last[n].steps = <<Step("validate", last[n].cal)>>
    /\ remote = {}

(***************************************************************************)
(* Meeting invitations: EventOrganizer mirrors the invitations of the Work *)
(* calendar to the Meetings subcalendar, the scanner records what it finds *)
(* on Meetings, SubcalendarWorkSync mirrors the rows of Meetings to Work.  *)
(* The organizer's and the sync's actions are the bodies of their loops    *)
(* for one row.                                                            *)
(***************************************************************************)
MaxMeetingId == 5     \* the last id the remote calendar hands out to a mirror

MeetingRow(id) ==
    [NewRow(id, id, "A", id, "work", "work", "meeting_invitation", NoSrc, "", "scanned")
        EXCEPT !.creator = "user"]

\* get_meeting_invitations
get_meeting_invitations(rs) ==
    {i \in DOMAIN rs : /\ rs[i].event_type = "meeting_invitation"
                       /\ rs[i].cal = "work"
                       /\ ~rs[i].deleted}

\* organize_meeting_invitations for the invitation in row i: unless a live
\* row already mirrors it on Meetings, create_meeting_mirror inserts the
\* remote event (private source_event_id = the invitation's id) and
\* record_event stores the mirror's row; record_event returns False when the
\* store fails, and the return value is not read.
organize_meeting_invitations(i) ==
    LET e == rows[i]
        mirror_data == NewRow(nextId, e.ical_uid, e.summary, e.start, "meetings", "work",
                              "meeting_mirror", e.event_id, "work", "created")
    IN  /\ nextId <= MaxMeetingId
        /\ i \in get_meeting_invitations(rows)
        /\ ~check_mirror_exists(rows, e.event_id, "meetings")
        /\ \E created, recorded \in BOOLEAN :
            IF created
            THEN /\ remote' = InsertRemote(remote, nextId, "meetings", e.event_id,
                                           e.summary, e.start)
                 /\ nextId' = nextId + 1
                 /\ rows' = IF recorded THEN record_event(rows, mirror_data) ELSE rows
            ELSE UNCHANGED <<rows, remote, nextId>>
        /\ last' = <<>>
        /\ UNCHANGED <<pending, hist>>

\* event_to_db_format: the row the scanner makes of a remote event;
\* source_calendar is the scanned calendar, private.source_event_id is kept,
\* mirror_source is not.
event_to_db_format(ev, calendar_id, event_type) ==
    NewRow(ev.id, ev.ical_uid, ev.summary, ev.start, calendar_id, calendar_id,
           event_type, ev.src, "", "scanned")

\* The loop of scan_calendar over the listing E: an event with no live row
\* (get_event_by_id) is recorded.
RECURSIVE ScanEvents(_, _, _, _)
ScanEvents(rs, E, calendar_id, event_type) ==
    IF E = {} THEN rs
    ELSE LET ev == CHOOSE x \in E : \A y \in E : x.id <= y.id
             db_event == event_to_db_format(ev, calendar_id, event_type)
         IN  ScanEvents(IF SelectExisting(rs, ev.id, calendar_id) # NoRow THEN rs
                        ELSE record_event(rs, db_event),
                        E \ {ev}, calendar_id, event_type)

\* scan_calendar for Meetings: _classify_event_type gives "manual" to
\* an event of a subcalendar that has no private.source, is no booking and
\* has no attendees; then the deletion detection.
scan_meetings ==
    LET events == {ev \in remote : ev.cal = "meetings"}
    IN  /\ rows' = detect_deletions(ScanEvents(rows, events, "meetings", "manual"),
                                    "meetings", {ev.id : ev \in events})
        /\ rows' # rows
        /\ last' = <<>>
        /\ UNCHANGED <<pending, remote, nextId, hist>>

\* SubcalendarWorkSync.sync_subcalendar for Meetings, the body of its loop
\* for row i at the start of a run.
sync_meetings(i) ==
    LET e == rows[i]
        st0 == BodyState(rows, remote, nextId, <<>>)
    IN  /\ nextId <= MaxMeetingId
        /\ i \in get_subcalendar_events(rows, "meetings")
        /\ ~is_mirror_from_work(e)
        /\ ~is_event_blacklisted(e.summary)
        /\ ~event_exists_on_work_by_icaluid(rows, e.ical_uid)
        /\ \E tm \in get_event_by_time_and_summary(rows, e.summary, e.start, "work") :
            /\ ~(tm # NoRow /\ rows[tm].event_type = "subcalendar_work_mirror")
            /\ \E f \in FindChoices(remote, e.event_id, "work", e.summary, e.start),
                  ok \in CreateOutcomes :
                LET st1 == MirrorBlock(st0, e, "work", e.summary, "subcalendar_work_mirror",
                                       "meetings", f, ok)
                IN  /\ rows' = st1.rows
                    /\ remote' = st1.remote
                    /\ nextId' = st1.nextId
                    /\ last' = st1.log
        /\ UNCHANGED <<pending, hist>>

\* The owner deletes a mirror from Meetings.
MeetingsUserDelete ==
    /\ \E ev \in remote : ev.cal = "meetings" /\ remote' = remote \ {ev}
    /\ last' = <<>>
    /\ UNCHANGED <<rows, pending, nextId, hist>>

InitMeetings ==
    /\ rows = <<MeetingRow(1), MeetingRow(2)>>
    /\ pending = <<>>
    /\ remote = {RemoteEvent(1, 1, "work", NoSrc, "A", 1),
                 RemoteEvent(2, 2, "work", NoSrc, "A", 2)}
    /\ nextId = 3
    /\ hist = <<>>
    /\ last = <<>>
    /\ locks = NoLocks
    /\ engine = OneEngine

NextMeetings ==
    /\ \/ \E i \in DOMAIN rows : organize_meeting_invitations(i)
       \/ scan_meetings
       \/ \E i \in DOMAIN rows : sync_meetings(i)
       \/ MeetingsUserDelete
    /\ UNCHANGED lockVars

SpecMeetings == InitMeetings /\ [][NextMeetings]_vars

\* C23: no active row that carries a source_event_id points at a row that
\* itself carries a source_event_id.
C23_MirrorsNeverChain ==
    \A i, j \in DOMAIN rows :
        (/\ IsActive(rows[i])
         /\ rows[i].src # NoSrc
         /\ rows[j].event_id = rows[i].src
         /\ rows[j].cal = rows[i].source_cal) => rows[j].src = NoSrc

(***************************************************************************)
(* Duplicate removal on the Work calendar: reconcile_active_events of the  *)
(* WorkCalendarReconciler and run_duplicate_check of the unified service.  *)
(* A remote event here carries its creation timestamp.  Both routines      *)
(* leave in last one entry per group of duplicates they handled: the store *)
(* records the group belongs to, the group, the id kept, the ids deleted.  *)
(***************************************************************************)
MaxDupEvents == 3     \* remote events on the Work calendar
MaxCreated == 2       \* creation timestamps
MaxDupRows == 2       \* active store rows of the Work calendar

DupEvent(id, start, created) ==
    [id |-> id, cal |-> "work", summary |-> "A", start |-> start, created |-> created]

DupRow(id, start) ==
    [NewRow(id, id, "A", start, "work", "work", "other", NoSrc, "", "scanned")
        EXCEPT !.creator = "user"]

\* events().list: the items in the order of the answer.  With
\* orderBy='startTime' the events come by start; the order of events of one
\* start, and the order without orderBy, is the API's.
Listings(rem, by_start) ==
    {l \in [1..Cardinality(rem) -> rem] :
        /\ \A i, j \in DOMAIN l : i # j => l[i] # l[j]
        /\ by_start => \A i, j \in DOMAIN l : i < j => l[i].start <= l[j].start}

\* get_active_events_from_db
get_active_events_from_db(rs) ==
    {i \in DOMAIN rs : rs[i].cal = "work" /\ IsActive(rs[i])}

\* find_events_in_index: the ids of the remote events that are this record:
\* first event_id when it is in by_id, then the events of by_summary_time
\* under the record's (summary, start), in the order of the listing.
find_events_in_index(listing, event_id, summary, start) ==
    LET first == IF \E k \in DOMAIN listing : listing[k].id = event_id
                 THEN <<event_id>> ELSE <<>>
        Match(ev) == ev.summary = summary /\ ev.start = start /\ ev.id # event_id
    IN  first \o [k \in 1..Len(SelectSeq(listing, Match)) |-> SelectSeq(listing, Match)[k].id]

DupLog(routine, records, group, kept, deleted) ==
    [routine |-> routine, records |-> records, group |-> group,
     kept |-> kept, deleted |-> deleted]

\* keep_id of reconcile_active_events when the record's id is not among the
\* duplicates, as the code has it: the first of the list.
KeepFirstListed(google_event_ids, group) == google_event_ids[1]

\* reconcile_active_events: the index is fetched once; for each active row
\* of the Work calendar with more than one remote instance keep_id is the
\* row's event_id if it is among them, else the first of the list, and every
\* other instance is deleted.
reconcile_active_events ==
    \E listing \in Listings(remote, TRUE) :
        LET Ids(i) == find_events_in_index(listing, rows[i].event_id,
                                           rows[i].summary, rows[i].start)
            IdSet(i) == {Ids(i)[k] : k \in DOMAIN Ids(i)}
            Group(i) == {ev \in remote : ev.id \in IdSet(i)}
            Keep(i) == IF rows[i].event_id \in IdSet(i) THEN rows[i].event_id
                       ELSE KeepFirstListed(Ids(i), Group(i))
            dups == {i \in get_active_events_from_db(rows) : Len(Ids(i)) > 1}
        IN  /\ remote' = {ev \in remote : \A i \in dups : ev.id \notin IdSet(i) \ {Keep(i)}}
            /\ last' = {DupLog("reconcile_active_events", {rows[i].event_id}, Group(i),
                               Keep(i), IdSet(i) \ {Keep(i)}) : i \in dups}
            /\ UNCHANGED <<rows, pending, nextId, hist>>

\* run_duplicate_check for the Work calendar: the events are grouped by
\* (summary, start); of a group of more than one the events are sorted by
\* 'created' (a stable sort of the listing), the first is kept and the rest
\* deleted.  The store is not read; records names the active rows the group
\* is an instance of, by id or by (summary, start).
run_duplicate_check ==
    \E listing \in Listings(remote, FALSE) :
        LET Pos(ev) == CHOOSE k \in DOMAIN listing : listing[k] = ev
            Group(ev) == {x \in remote : x.summary = ev.summary /\ x.start = ev.start}
            Oldest(g) == CHOOSE x \in g : \A y \in g \ {x} :
                            \/ x.created < y.created
                            \/ x.created = y.created /\ Pos(x) < Pos(y)
            groups == {Group(ev) : ev \in {x \in remote : Cardinality(Group(x)) > 1}}
            Records(g) == {rows[i].event_id : i \in {j \in get_active_events_from_db(rows) :
                              \/ \E x \in g : x.id = rows[j].event_id
                              \/ \E x \in g : x.summary = rows[j].summary /\ x.start = rows[j].start}}
        IN  /\ remote' = {ev \in remote : \A g \in groups : ev \in g => ev = Oldest(g)}
            /\ last' = {DupLog("run_duplicate_check", Records(g), g, Oldest(g).id,
                               {x.id : x \in g \ {Oldest(g)}}) : g \in groups}
            /\ UNCHANGED <<rows, pending, nextId, hist>>

InitDuplicates ==
    /\ \E n \in 1..MaxDupRows : \E ids \in [1..n -> 1..(MaxDupEvents + 1)] :
        /\ \A i, j \in 1..n : i < j => ids[i] < ids[j]
        /\ rows = [i \in 1..n |-> DupRow(ids[i], 1)]
    /\ pending = <<>>
    /\ \E present \in SUBSET (1..MaxDupEvents) :
       \E created \in [present -> 1..MaxCreated] :
        remote = {DupEvent(id, 1, created[id]) : id \in present}
    /\ nextId = MaxDupEvents + 2
    /\ hist = <<>>
    /\ last = {}
    /\ locks = NoLocks
    /\ engine = OneEngine

NextDuplicates ==
    /\ \/ reconcile_active_events
       \/ run_duplicate_check
    /\ UNCHANGED lockVars

SpecDuplicates == InitDuplicates /\ [][NextDuplicates]_vars

KeepPolicy(e, l) ==
    /\ IF \E x \in l.group : x.id = e
       THEN l.kept = e
       ELSE \E x \in l.group : x.id = l.kept /\ \A y \in l.group : x.created <= y.created
    /\ l.deleted = {x.id : x \in l.group} \ {l.kept}

\* C24: of every group of duplicates a routine handled, for every store
\* record the group is an instance of, the event kept is the one whose id is
\* the record's event_id if it is in the group, else one of earliest
\* creation, and all the others were deleted.
C24_KeepExternalIdElseOldest ==
    \A l \in last : \A e \in l.records : KeepPolicy(e, l)

\* C25: in the log of the sweep's latest pass, every mirror before the last
\* one the pass reached whose remote event the pass deleted has its row
\* soft-deleted in the store.
C25_EarlierItemsStayCommitted ==
    \A n \in DOMAIN last :
        (n < Len(last) /\ last[n].action = "orphaned_mirror_removed") =>
            \E i \in DOMAIN rows : /\ rows[i].event_id = last[n].event_id
                                   /\ rows[i].cal = "work"
                                   /\ rows[i].deleted

(***************************************************************************)
(* A mirror deleted by the owner: the owner removes a mirror from the      *)
(* Personal Events subcalendar, the scanner scans the subcalendar, and     *)
(* PersonalFamilyMirror.mirror_calendar runs again.                        *)
(***************************************************************************)
\* The owner deletes a mirror from the subcalendar.
SubUserDelete ==
    /\ \E ev \in remote : ev.cal = "sub" /\ ev.src # NoSrc /\ remote' = remote \ {ev}
    /\ UNCHANGED <<rows, pending, nextId, hist, last>>

\* scan_calendar for the subcalendar: events without a live row are recorded
\* (_classify_event_type gives "other"), then _detect_deletions soft-deletes
\* the live rows whose event is gone.
scan_subcalendar ==
    LET events == {ev \in remote : ev.cal = "sub"}
    IN  /\ rows' = detect_deletions(ScanEvents(rows, events, "sub", "other"),
                                    "sub", {ev.id : ev \in events})
        /\ rows' # rows
        /\ UNCHANGED <<pending, remote, nextId, hist, last>>

InitSuppress ==
    /\ rows = <<PersonalRow>>
    /\ pending = [p \in Procs |-> Idle]
    /\ remote = {RemoteEvent(1, 1, "personal", NoSrc, "A", 1)}
    /\ nextId = 4
    /\ hist = [k \in MirrorKeys |-> <<>>]
    /\ last = <<>>
    /\ locks = NoLocks
    /\ engine = OneEngine

NextSuppress ==
    /\ \/ \E i \in DOMAIN rows : mirror_calendar(i)
       \/ SubUserDelete
       \/ scan_subcalendar
    /\ UNCHANGED lockVars

SpecSuppress == InitSuppress /\ [][NextSuppress]_vars

\* The scanner has recorded the deletion of a subcalendar mirror of src.
DeletionDetected(src) ==
    \E i \in DOMAIN rows : /\ rows[i].cal = "sub"
                           /\ rows[i].src = src
                           /\ rows[i].deleted
                           /\ rows[i].last_action = "scanner_detected_deletion"

\* C26: from the moment the scanner has recorded that a subcalendar mirror of
\* a source was deleted, the source row carries do_not_mirror and no step
\* adds a remote event that mirrors the source, on any calendar.
C26_DeletedMirrorNotRecreated ==
    [][\A i \in DOMAIN rows :
          (rows[i].src = NoSrc /\ DeletionDetected(rows[i].event_id)) =>
              /\ rows[i].dnm
              /\ \A ev \in remote' \ remote : ev.src # rows[i].event_id]_vars

(***************************************************************************)
(* DBAware25LiveSync (calpal/sync/twentyfive_live_sync.py): reservations   *)
(* go straight to the Work calendar, the store says what exists and what   *)
(* was deleted.  A row made of a reservation carries the two 25Live ids of *)
(* its metadata.                                                           *)
(***************************************************************************)
MaxFeed == 2          \* reservations in the feed of one pass
MaxTFId == 2          \* the last id the remote calendar hands out

\* _extract_25live_reservation_id gives None without a qualifying
\* profile_name; str(reservation.get('event_id', '')) gives '' without an
\* event_id.
ReservationIds == {"None", "Rsrv_1"}
EventIds == {"", "e1"}
Feed == {[reservation_id |-> r, event_id |-> e, summary |-> "A", start |-> 1] :
            r \in ReservationIds, e \in EventIds}

\* metadata->>key of a row: SQL NULL for a row without the key.
Metadata(r, key) == IF key \in DOMAIN r THEN r[key] ELSE "None"

\* reservation_to_event_data, with the id the remote calendar gave.
reservation_to_event_data(res, id) ==
    LET r == NewRow(id, id, res.summary, res.start, "work", "work", "25live_event",
                    NoSrc, "", "created")
    IN  [f \in DOMAIN r \cup {"reservation_id", "event_id25"} |->
            IF f = "reservation_id" THEN res.reservation_id
            ELSE IF f = "event_id25" THEN res.event_id
            ELSE r[f]]

\* get_event_by_25live_id
get_event_by_25live_id(rs, reservation_id, calendar_id) ==
    \E i \in DOMAIN rs : /\ Metadata(rs[i], "reservation_id") = reservation_id
                         /\ reservation_id # "None"
                         /\ rs[i].cal = calendar_id
                         /\ ~rs[i].deleted

\* check_deleted_event: a soft-deleted row of the calendar with this
\* reservation id or this event id (a NULL on either side matches nothing);
\* False when the query fails.
check_deleted_event(rs, reservation_id, event_id, calendar_id, db_ok) ==
    /\ db_ok
    /\ \E i \in DOMAIN rs :
        /\ rs[i].cal = calendar_id
        /\ rs[i].deleted
        /\ \/ /\ reservation_id # "None"
              /\ Metadata(rs[i], "reservation_id") = reservation_id
           \/ /\ "event_id25" \in DOMAIN rs[i]
              /\ rs[i].event_id25 = event_id

\* A soft-deleted row of the calendar carries the reservation's reservation
\* id or its event id.
DeletedCarries(rs, res, calendar_id) ==
    \E i \in DOMAIN rs :
        /\ rs[i].cal = calendar_id
        /\ rs[i].deleted
        /\ \/ /\ res.reservation_id # "None"
              /\ Metadata(rs[i], "reservation_id") = res.reservation_id
           \/ /\ "event_id25" \in DOMAIN rs[i]
              /\ rs[i].event_id25 = res.event_id

\* The loop of sync_calendar_type over the reservations R; db_ok[n] says
\* whether the deleted-event query of reservation n succeeds, out[n] is the
\* answer to its events().insert.
RECURSIVE SyncFeed(_, _, _, _, _)
SyncFeed(st, R, n, db_ok, out) ==
    IF n > Len(R) THEN st
    ELSE LET res == R[n]
             was_deleted == DeletedCarries(st.rows, res, "work")
             has_id == res.reservation_id # "None" \/ res.event_id # ""
             skip == IF has_id
                     THEN \/ get_event_by_25live_id(st.rows, res.reservation_id, "work")
                          \/ check_deleted_event(st.rows, res.reservation_id, res.event_id,
                                                 "work", db_ok[n])
                     ELSE get_event_by_time_and_summary(st.rows, res.summary, res.start,
                                                        "work") # {NoRow}
             create == ~skip /\ st.nextId <= MaxTFId
             created == create /\ out[n] = "ok"
             entry == [res |-> res, was_deleted |-> was_deleted, create |-> create]
             st1 == IF created
                    THEN BodyState(
                            record_event(st.rows, reservation_to_event_data(res, st.nextId)),
                            InsertRemote(st.remote, st.nextId, "work", NoSrc,
                                         res.summary, res.start),
                            st.nextId + 1, Append(st.log, entry))
                    ELSE BodyState(st.rows, st.remote, st.nextId, Append(st.log, entry))
         IN  SyncFeed(st1, R, n + 1, db_ok, out)

\* DBAware25LiveSync.sync_calendar_type
db_sync_calendar_type ==
    /\ nextId <= MaxTFId
    /\ \E k \in 1..MaxFeed : \E R \in [1..k -> Feed] :
       \E db_ok \in [1..k -> BOOLEAN], out \in [1..k -> {"ok", "http_error"}] :
        LET st == SyncFeed(BodyState(rows, remote, nextId, <<>>), R, 1, db_ok, out)
        IN  /\ rows' = st.rows
            /\ remote' = st.remote
            /\ nextId' = st.nextId
            /\ last' = st.log
    /\ UNCHANGED <<pending, hist>>

\* The owner deletes an event from the Work calendar.
WorkUserDelete ==
    /\ \E ev \in remote : ev.cal = "work" /\ remote' = remote \ {ev}
    /\ last' = <<>>
    /\ UNCHANGED <<rows, pending, nextId, hist>>

\* scan_calendar for the Work calendar.
scan_work ==
    LET events == {ev \in remote : ev.cal = "work"}
    IN  /\ rows' = detect_deletions(ScanEvents(rows, events, "work", "25live_event"),
                                    "work", {ev.id : ev \in events})
        /\ rows' # rows
        /\ last' = <<>>
        /\ UNCHANGED <<pending, remote, nextId, hist>>

InitDbSync ==
    /\ rows = <<>>
    /\ pending = <<>>
    /\ remote = {}
    /\ nextId = 1
    /\ hist = <<>>
    /\ last = <<>>
    /\ locks = NoLocks
    /\ engine = OneEngine

NextDbSync ==
    /\ \/ db_sync_calendar_type
       \/ WorkUserDelete
       \/ scan_work
    /\ UNCHANGED lockVars

SpecDbSync == InitDbSync /\ [][NextDbSync]_vars

\* C27: in every pass, no remote create is issued for a reservation when, at
\* its turn, a soft-deleted row of the Work calendar carries its reservation
\* id or its event id.
C27_DeletedNotRecreated ==
    \A n \in DOMAIN last : last[n].was_deleted => ~last[n].create

(***************************************************************************)
(* The Busy mirror of PersonalFamilyMirror, with the text fields.  Two     *)
(* worlds hold two source records that differ at most in summary,          *)
(* description and location; the Work block of mirror_calendar runs in     *)
(* each.  remote and rows hold, per world, the event inserted on the Work  *)
(* calendar and the row given to upsert_mirror_event.                      *)
(***************************************************************************)
Worlds == {1, 2}
Texts == {"", "x"}
MirrorIds == {4, 5}

SourceEvent(summary, description, location, start, is_all_day) ==
    [event_id |-> 1, ical_uid |-> 1, summary |-> summary, description |-> description,
     location |-> location, start_time |-> start, end_time |-> start + 1,
     is_all_day |-> is_all_day, source_calendar |-> "personal"]

SourceEvents ==
    {SourceEvent(s, dsc, l, t, a) :
        s \in {"A", "B"}, dsc \in Texts, l \in Texts, t \in {1, 2}, a \in BOOLEAN}

\* create_mirror_event with the title of the source whatever show_as_busy says.
create_mirror_event_titled(source_event, target_calendar, show_as_busy) ==
    [cal |-> target_calendar,
     summary |-> source_event.summary,
     description |-> IF show_as_busy THEN "" ELSE source_event.description,
     location |-> IF source_event.is_all_day THEN "absent"
                  ELSE IF show_as_busy THEN "" ELSE source_event.location,
     start |-> source_event.start_time,
     end |-> source_event.end_time,
     all_day |-> source_event.is_all_day,
     private |-> [mirror_source |-> source_event.source_calendar,
                  mirror_type |-> "personal_family",
                  source_ical_uid |-> source_event.ical_uid,
                  source_event_id |-> source_event.event_id]]

\* create_mirror_event: the body given to events().insert.  An all-day body
\* has no location key.
create_mirror_event(source_event, target_calendar, show_as_busy) ==
    [cal |-> target_calendar,
     summary |-> IF show_as_busy THEN "Busy" ELSE source_event.summary,
     description |-> IF show_as_busy THEN "" ELSE source_event.description,
     location |-> IF source_event.is_all_day THEN "absent"
                  ELSE IF show_as_busy THEN "" ELSE source_event.location,
     start |-> source_event.start_time,
     end |-> source_event.end_time,
     all_day |-> source_event.is_all_day,
     private |-> [mirror_source |-> source_event.source_calendar,
                  mirror_type |-> "personal_family",
                  source_ical_uid |-> source_event.ical_uid,
                  source_event_id |-> source_event.event_id]]

\* work_data of mirror_calendar, the row given to upsert_mirror_event.
work_data(event, event_type, mirror_id, subcal_mirror_id) ==
    [event_id |-> mirror_id, ical_uid |-> event.ical_uid, summary |-> "Busy",
     description |-> "", location |-> "", start_time |-> event.start_time,
     end_time |-> event.end_time, source_calendar |-> event.source_calendar,
     current_calendar |-> "work", event_type |-> event_type, status |-> "active",
     is_all_day |-> event.is_all_day,
     metadata |-> [mirror_source |-> event.source_calendar,
                   source_event_id |-> event.event_id,
                   is_busy_mirror |-> TRUE,
                   subcalendar_mirror |-> subcal_mirror_id]]

\* The Work block of mirror_calendar in world w: an adopted event
\* (found), or a create that succeeds with the id the calendar hands out, or
\* fails and leaves nothing.
busy_mirror(w) ==
    /\ rows[w] = <<>>
    /\ \E found \in BOOLEAN, out \in {"ok", "http_error"}, id \in MirrorIds :
        LET body == create_mirror_event(pending[w], "work", TRUE)
            row == work_data(pending[w], "personal_work_mirror", id, 3)
        IN  IF found
            THEN /\ rows' = [rows EXCEPT ![w] = <<row>>]
                 /\ UNCHANGED remote
            ELSE IF out = "ok"
            THEN /\ remote' = [remote EXCEPT ![w] = {[body EXCEPT !.cal = "work"]}]
                 /\ rows' = [rows EXCEPT ![w] = <<row>>]
            ELSE UNCHANGED <<rows, remote>>
    /\ UNCHANGED <<pending, nextId, hist, last>>

InitBusy ==
    /\ pending \in {p \in [Worlds -> SourceEvents] :
                        /\ p[1].start_time = p[2].start_time
                        /\ p[1].is_all_day = p[2].is_all_day}
    /\ rows = [w \in Worlds |-> <<>>]
    /\ remote = [w \in Worlds |-> {}]
    /\ nextId = 4
    /\ hist = <<>>
    /\ last = <<>>
    /\ locks = NoLocks
    /\ engine = OneEngine

NextBusy ==
    /\ \E w \in Worlds : busy_mirror(w)
    /\ UNCHANGED lockVars

SpecBusy == InitBusy /\ [][NextBusy]_vars

\* C28: the events created on the Work calendar in the two worlds are equal,
\* titled "Busy" with an empty description and no location text, and the
\* rows written are equal apart from the mirror's own id.
C28_BusyRevealsNothing ==
    /\ \A ev1 \in remote[1], ev2 \in remote[2] : ev1 = ev2
    /\ \A w \in Worlds : \A ev \in remote[w] :
        ev.summary = "Busy" /\ ev.description = "" /\ ev.location \in {"", "absent"}
    /\ \A n1 \in DOMAIN rows[1], n2 \in DOMAIN rows[2] :
        [rows[1][n1] EXCEPT !.event_id = 0] = [rows[2][n2] EXCEPT !.event_id = 0]
    /\ \A w \in Worlds : \A n \in DOMAIN rows[w] :
        rows[w][n].summary = "Busy" /\ rows[w][n].description = "" /\ rows[w][n].location = ""

\* Both worlds have created their Work event from sources whose summary,
\* description and location all differ.
C28_Witness ==
    /\ remote[1] # {} /\ remote[2] # {}
    /\ rows[1] # <<>> /\ rows[2] # <<>>
    /\ pending[1].summary # pending[2].summary
    /\ pending[1].description # pending[2].description
    /\ pending[1].location # pending[2].location

(***************************************************************************)
(* Fingerprints of 25Live events: the reservation id of DBAware25LiveSync  *)
(* and the tracking signature of TwentyFiveLiveSync, applied to a pair of  *)
(* reservations.  md5 is taken to be free of collisions: the digest stands *)
(* for the string it was made of.                                          *)
(***************************************************************************)
ProfileNames == {"", "Rsrv_1"}

Reservation25(profile_name, summary, start, location) ==
    [profile_name |-> profile_name, summary |-> summary, start |-> start,
     end |-> start + 1, location |-> location]

Reservation25s ==
    {Reservation25(p, s, t, l) : p \in ProfileNames, s \in {"A", "B"}, t \in {1, 2},
                                 l \in Texts}

\* DBAware25LiveSync._extract_25live_reservation_id: the profile_name with
\* the date of event_start_dt, None without a profile_name.
db_extract_25live_reservation_id(res) ==
    IF res.profile_name # "" THEN <<res.profile_name, res.start>> ELSE <<"None">>

\* TwentyFiveLiveSync._extract_25live_reservation_id: the value of the
\* "Profile: " line or the profile_name, None without either.
extract_25live_reservation_id(res) ==
    IF res.profile_name # "" THEN <<res.profile_name>> ELSE <<"None">>

\* _create_gfu_event_signature (and _create_classes_event_signature): the
\* reservation id when there is one, else the md5 of
\* "summary-start-end-location".
create_gfu_event_signature(res) ==
    IF extract_25live_reservation_id(res) # <<"None">>
    THEN extract_25live_reservation_id(res)
    ELSE <<"md5", res.summary, res.start, res.end, res.location>>

\* The two routines applied to the pair.
Fingerprint ==
    /\ last = <<>>
    /\ last' = [n \in DOMAIN pending |->
                   [signature |-> create_gfu_event_signature(pending[n]),
                    reservation_id |-> db_extract_25live_reservation_id(pending[n])]]
    /\ UNCHANGED <<rows, pending, remote, nextId, hist>>

\* The pair is given up for the next.
FingerprintDone ==
    /\ last # <<>>
    /\ last' = <<>>
    /\ \E p \in [1..2 -> Reservation25s] : pending' = p
    /\ UNCHANGED <<rows, remote, nextId, hist>>

InitFingerprint ==
    /\ rows = <<>>
    /\ pending \in [1..2 -> Reservation25s]
    /\ remote = {}
    /\ nextId = 1
    /\ hist = <<>>
    /\ last = <<>>
    /\ locks = NoLocks
    /\ engine = OneEngine

NextFingerprint ==
    /\ \/ Fingerprint
       \/ FingerprintDone
    /\ UNCHANGED lockVars

SpecFingerprint == InitFingerprint /\ [][NextFingerprint]_vars

\* C29: of the two reservations of the pair: with the same reservation id
\* and the same start date the signatures are equal whatever the title and
\* location; with no reservation id and equal title, start, end and location
\* the signatures are equal; with the same reservation id and different
\* start dates the signatures differ.
C29_FingerprintDeterministic ==
    last # <<>> =>
        LET a == pending[1]
            b == pending[2]
        IN  /\ (a.profile_name # "" /\ a.profile_name = b.profile_name /\ a.start = b.start)
                   => last[1].signature = last[2].signature
            /\ (/\ a.profile_name = "" /\ b.profile_name = ""
                /\ a.summary = b.summary /\ a.start = b.start
                /\ a.end = b.end /\ a.location = b.location)
                   => last[1].signature = last[2].signature
            /\ (a.profile_name # "" /\ a.profile_name = b.profile_name /\ a.start # b.start)
                   => last[1].signature # last[2].signature

\* C30: no reservation of the latest run of sync_calendar_type was skipped
\* as already processed on account of a signature that was in
\* processed_events before the run began, put there by an earlier run, for
\* this calendar or another, whether or not its create succeeded.
C30_ProcessedScopedToPass ==
    Len(hist) > 0 =>
        \A n \in DOMAIN last :
            last[n].duplicate = "processed" =>
                EventSignature(Reservations[last[n].res]) \notin hist[Len(hist)].before

(***************************************************************************)
(* UnifiedCalendarSync.sync_all_calendars: handle_orphaned_mirrors, then   *)
(* sync_calendar for the Work calendar, in dry-run or live mode.  hist     *)
(* keeps, per run, the mode and what the run found to do.                  *)
(***************************************************************************)
sync_all_calendars ==
    /\ Len(hist) < MaxPasses
    /\ \E dry_run, deletions_only \in BOOLEAN :
        LET mirrors == UNION {ActiveMirrors(rows, c) : c \in Calendars}
        IN  \E deleted \in [mirrors -> BOOLEAN] :
            /\ \A i \in mirrors :
                deleted[i] \in SourceDeleted(rows, rows[i].src, rows[i].source_cal)
            /\ LET rows1 == MarkOrphans(rows, mirrors, deleted, dry_run)
                   db_events == get_active_db_events(rows1, "work", TRUE)
                   gcal_events == get_calendar_events(remote, "work", TRUE)
                   to_create == db_events \ gcal_events
                   to_delete == gcal_events \ db_events
                   explicitly_deleted == get_events_to_delete(rows1, "work")
                   st0 == PassState(rows1, remote, nextId,
                                    Stats(to_create, to_delete, dry_run, deletions_only,
                                          NoBatch, TRUE, TRUE), 0)
                   found == [dry_run |-> dry_run,
                             orphaned |-> {i \in mirrors : deleted[i]},
                             to_create |-> to_create, to_delete |-> to_delete,
                             explicitly_deleted |-> explicitly_deleted]
               IN  \E out1 \in StaleRuns(to_delete), out2 \in [explicitly_deleted -> BOOLEAN],
                      out3 \in [to_create -> BOOLEAN] :
                   LET st == IF dry_run THEN st0
                             ELSE apply_changes(st0, "work", to_delete, out1,
                                                explicitly_deleted, out2,
                                                IF deletions_only THEN {} ELSE to_create, out3)
                   IN  /\ rows' = st.rows
                       /\ remote' = st.remote
                       /\ nextId' = st.nextId
                       /\ hist' = Append(hist, found)
                       /\ last' = <<>>
    /\ UNCHANGED pending

InitDryRun ==
    /\ rows \in OrphanStores
    /\ remote \in SUBSET {RemoteEvent(4, 4, "work", 1, "Busy", 1),
                          RemoteEvent(5, 5, "work", 2, "Busy", 1),
                          RemoteEvent(3, 3, "work", NoSrc, "A", 1)}
    /\ nextId = 6
    /\ pending = [p \in Procs |-> Idle]
    /\ hist = <<>>
    /\ last = <<>>
    /\ locks = NoLocks
    /\ engine = OneEngine

NextDryRun ==
    /\ \/ sync_all_calendars
       \/ OrphanSourceDeleted
    /\ UNCHANGED lockVars

SpecDryRun == InitDryRun /\ [][NextDryRun]_vars

\* C31: a run of sync_all_calendars in dry-run mode leaves the store and the
\* remote calendar as they were.
C31_DryRunChangesNothing ==
    [][(Len(hist') > Len(hist) /\ hist'[Len(hist')].dry_run) =>
            (rows' = rows /\ remote' = remote)]_vars

\* A dry run that found an orphan, a stale event, a missing event and a
\* soft-deleted row to remove.
C31_Witness ==
    \E n \in DOMAIN hist :
        /\ hist[n].dry_run
        /\ hist[n].orphaned # {}
        /\ hist[n].to_delete # {}
        /\ hist[n].to_create # {}

\* C32: reconcile_active_events deleted no remote event whose id is the
\* event_id of an active row of the Work calendar.
C32_ActiveRecordsKeepTheirEvent ==
    \A l \in last :
        l.routine = "reconcile_active_events" =>
            l.deleted \cap {rows[i].event_id : i \in get_active_events_from_db(rows)} = {}

(***************************************************************************)
(* A reconcile pass of the Work calendar next to the mirror writers.  The  *)
(* Work block of a mirror call is two steps, the remote create and the     *)
(* store upsert; the pass is three, the store query, the remote listing    *)
(* and _apply_changes.  pending holds the mirrors created and not yet      *)
(* recorded, last the pass's position and what it read, hist the event ids *)
(* the passes deleted as stale.                                            *)
(***************************************************************************)
MaxRaceId == 7        \* the last id the remote calendar hands out

\* mirror_calendar, Work block, up to create_mirror_event: the listing finds
\* the source's mirror and it is adopted, or the event is inserted.
mirror_create(i) ==
    LET e == rows[i]
        found == {ev \in remote : ev.cal = "work" /\ ev.src = e.event_id}
    IN  /\ e.src = NoSrc
        /\ ~e.deleted
        /\ nextId <= MaxRaceId
        /\ \A n \in DOMAIN pending : pending[n].source # i
        /\ IF found # {}
           THEN /\ \E ev \in found : pending' = Append(pending, [source |-> i, id |-> ev.id])
                /\ UNCHANGED <<remote, nextId>>
           ELSE /\ remote' = InsertRemote(remote, nextId, "work", e.event_id, "Busy", e.start)
                /\ nextId' = nextId + 1
                /\ pending' = Append(pending, [source |-> i, id |-> nextId])
        /\ UNCHANGED <<rows, hist, last>>

\* mirror_calendar, Work block, upsert_mirror_event of work_data.
mirror_record ==
    /\ pending # <<>>
    /\ LET m == Head(pending)
       IN  rows' = upsert_mirror_event(rows,
                       WorkMirrorRow(rows[m.source], m.id, "personal_work_mirror"))
    /\ pending' = Tail(pending)
    /\ UNCHANGED <<remote, nextId, hist, last>>

PassIdle == [pc |-> "idle", db_events |-> {}, gcal_events |-> {}]

\* sync_calendar, step 1: _get_active_db_events
pass_db_events ==
    /\ last.pc = "idle"
    /\ last' = [last EXCEPT !.pc = "db", !.db_events = get_active_db_events(rows, "work", TRUE)]
    /\ UNCHANGED <<rows, pending, remote, nextId, hist>>

\* sync_calendar, step 2: _get_calendar_events
pass_calendar_events ==
    /\ last.pc = "db"
    /\ last' = [last EXCEPT !.pc = "listed",
                            !.gcal_events = get_calendar_events(remote, "work", TRUE)]
    /\ UNCHANGED <<rows, pending, remote, nextId, hist>>

\* sync_calendar, steps 3 to 5 of a live, deletions-only run: the differences
\* of what was read, _get_events_to_delete and _apply_changes.
pass_apply_changes ==
    /\ last.pc = "listed"
    /\ LET to_create == {id \in last.db_events \ last.gcal_events :
                            id \in ActiveIds(rows, "work")}
           to_delete == last.gcal_events \ last.db_events
           explicitly_deleted == get_events_to_delete(rows, "work")
           st0 == PassState(rows, remote, nextId,
                            Stats(to_create, to_delete, FALSE, TRUE, NoBatch, TRUE, TRUE), 0)
           st == apply_changes(st0, "work", to_delete, [id \in to_delete |-> "ok"],
                               explicitly_deleted, [i \in explicitly_deleted |-> TRUE],
                               {}, <<>>)
       IN  /\ rows' = st.rows
           /\ remote' = st.remote
           /\ nextId' = st.nextId
           /\ hist' = hist \cup st.stats.stale_deleted
    /\ last' = PassIdle
    /\ UNCHANGED pending

InitRace ==
    /\ rows = <<PersonalRow, InstanceRow>>
    /\ pending = <<>>
    /\ remote = {RemoteEvent(1, 1, "personal", NoSrc, "A", 1),
                 RemoteEvent(3, 1, "personal", NoSrc, "A", 2)}
    /\ nextId = 4
    /\ hist = {}
    /\ last = PassIdle
    /\ locks = NoLocks
    /\ engine = OneEngine

NextRace ==
    /\ \/ \E i \in DOMAIN rows : mirror_create(i)
       \/ mirror_record
       \/ pass_db_events
       \/ pass_calendar_events
       \/ pass_apply_changes
    /\ UNCHANGED lockVars

SpecRace == InitRace /\ [][NextRace]_vars

\* C33: no active row of the Work calendar has an event that a reconcile
\* pass deleted as stale.
C33_PassSparesFreshMirror ==
    \A i \in DOMAIN rows :
        (rows[i].cal = "work" /\ IsActive(rows[i])) => rows[i].event_id \notin hist

\* SpecLock with every step of every worker weakly fair: a worker that can
\* take its next step takes it, so every critical section ends.
SpecLockFair ==
    /\ SpecLock
    /\ \A p \in Procs : /\ WF_vars(LockRequest(p))
                        /\ WF_vars(LockAcquire(p))
                        /\ WF_vars(LockFind(p))
                        /\ WF_vars(LockCreate(p))
                        /\ WF_vars(LockUpsert(p))
                        /\ WF_vars(LockRelease(p))

\* C34: a worker that asked for the mirror lock is eventually granted it.
C34_LockEventuallyGranted ==
    \A p \in Procs : (pending[p].pc = "wait") ~> (pending[p].pc = "find")

(***************************************************************************)
(* SpecScan: the owner adds and removes events on two calendars while      *)
(* CalendarScanner.scan_calendar scans them; a listing may fail.           *)
(***************************************************************************)
MaxScanId == 3

MaxScanRows == 4

ScanCalendars == {"personal", "work"}

\* Outcomes of the paged events().list() loop
FetchOutcomes == {"ok", "http_error", "error"}

\* fetch_calendar_events: the pages are accumulated and returned when the
\* last page arrived; an HttpError or any other exception on any page
\* returns the empty list, the pages already read included.
fetch_calendar_events(calendar_id, out) ==
    IF out = "ok" THEN {ev \in remote : ev.cal = calendar_id} ELSE {}

ScanUserCreate ==
    /\ nextId <= MaxScanId
    /\ \E cal \in ScanCalendars :
        remote' = remote \cup {RemoteEvent(nextId, nextId, cal, NoSrc, "A", 1)}
    /\ nextId' = nextId + 1
    /\ UNCHANGED <<rows, pending, hist, last>>

ScanUserDelete ==
    /\ \E ev \in remote : remote' = remote \ {ev}
    /\ UNCHANGED <<rows, pending, nextId, hist, last>>

\* scan_calendar: the listing is fetched, its events without a row are
\* recorded, and _detect_deletions runs on the ids of the listing.
scan_calendar_listing(calendar_id, out) ==
    LET events == fetch_calendar_events(calendar_id, out)
        calendar_event_ids == {ev.id : ev \in events}
        after == detect_deletions(ScanEvents(rows, events, calendar_id, "other"),
                                  calendar_id, calendar_event_ids)
    IN  /\ Len(after) <= MaxScanRows
        /\ rows' = after
        /\ last' = [calendar |-> calendar_id, out |-> out,
                    on_calendar |-> {ev.id : ev \in {x \in remote : x.cal = calendar_id}},
                    events_deleted |-> {rows[i].event_id : i \in
                        {j \in DOMAIN rows : ~rows[j].deleted /\ after[j].deleted}}]
        /\ UNCHANGED <<pending, remote, nextId, hist>>

InitScan ==
    /\ rows = <<>>
    /\ pending = [p \in Procs |-> Idle]
    /\ remote = {}
    /\ nextId = 1
    /\ hist = <<>>
    /\ last = [calendar |-> "", out |-> "ok", on_calendar |-> {}, events_deleted |-> {}]
    /\ locks = NoLocks
    /\ engine = OneEngine

NextScan ==
    /\ \/ ScanUserCreate
       \/ ScanUserDelete
       \/ \E cal \in ScanCalendars, out \in FetchOutcomes : scan_calendar_listing(cal, out)
    /\ UNCHANGED lockVars

SpecScan == InitScan /\ [][NextScan]_vars

\* C35: a scan whose listing failed soft-deletes no record, and a scan
\* soft-deletes only records whose id is not on the calendar.
C35_FailedListingDeletesNothing ==
    /\ last.out # "ok" => last.events_deleted = {}
    /\ last.events_deleted \cap last.on_calendar = {}

\* C36: no two active rows written by record_event for scanned events (no
\* source_event_id) share the same (event_id, current_calendar).
C36_RecordEventOneActiveRow ==
    \A i, j \in DOMAIN rows :
        (/\ i # j
         /\ IsActive(rows[i]) /\ IsActive(rows[j])
         /\ rows[i].src = NoSrc /\ rows[j].src = NoSrc
         /\ rows[i].cal = rows[j].cal) => rows[i].event_id # rows[j].event_id

(***************************************************************************)
(* SpecResurface: the orphan sweeps over a store in which a source event   *)
(* that was soft-deleted is found on its calendar again and recorded anew. *)
(***************************************************************************)
MaxSweepRows == 5

\* scan_calendar meets a source event that has no live row: get_event_by_id
\* finds nothing and record_event inserts a new row beside the soft-deleted
\* one.
OrphanSourceRecorded ==
    /\ Len(rows) < MaxSweepRows
    /\ \E e \in {PersonalRow, ClassRow} :
        /\ SelectExisting(rows, e.event_id, e.cal) = NoRow
        /\ rows' = record_event(rows, e)
    /\ last' = <<>>
    /\ UNCHANGED <<pending, remote, nextId, hist>>

NextResurface ==
    /\ \/ OrphanSourceDeleted
       \/ OrphanSourceRecorded
       \/ reconcile_orphaned_mirrors
       \/ handle_orphaned_mirrors
    /\ UNCHANGED lockVars

SpecResurface == InitOrphan /\ [][NextResurface]_vars

\* C37: the sweep treats a mirror as orphaned only when its source has no
\* live row on the source calendar.
C37_SweepSparesLiveSources ==
    \A n \in DOMAIN last : last[n].orphaned => last[n].source_gone

\* C38: a live pass run with a batch size B > 0, its store query and its
\* listing answered, issues at most B remote write calls, deletes and creates
\* together.
C38_BatchBoundsCalls ==
    \A n \in DOMAIN hist :
        (/\ IsPass(hist[n]) /\ ~hist[n].dry_run /\ hist[n].batch_size > 0
         /\ hist[n].db_ok /\ hist[n].list_ok) =>
            hist[n].delete_calls + hist[n].create_calls <= hist[n].batch_size

(***************************************************************************)
(* SpecSettle: rows of the work calendar are soft-deleted while            *)
(* reconcile_deleted_events runs pass after pass.  hist is the order of    *)
(* the rows' deleted_at; pending is the pass: idle, or in its loop with    *)
(* the rows selected and not yet handled.                                  *)
(***************************************************************************)
MaxSettleRows == 3

\* LIMIT 500 of the selection, scaled to the rows of the model
PassLimit == 2

SettledActions == {"removed_from_google", "already_removed"}

PassAt(pc, queue) == [pc |-> pc, queue |-> queue]

\* ORDER BY deleted_at LIMIT: the first PassLimit selected rows in the order
\* of their deleted_at.
OldestFirst(order, selected) ==
    LET s == SelectSeq(order, LAMBDA i : i \in selected)
    IN  SubSeq(s, 1, Min(Len(s), PassLimit))

\* The scanner soft-deletes a row of the work calendar, by mark_as_deleted
\* or by its deletion detection.
SettleSoftDelete ==
    /\ \E i \in DOMAIN rows :
        /\ ~rows[i].deleted
        /\ rows' \in {mark_as_deleted(rows, rows[i].event_id, "work"),
                      detect_deletions(rows, "work",
                          {rows[j].event_id : j \in DOMAIN rows \ {i}})}
        /\ hist' = Append(hist, i)
    /\ UNCHANGED <<pending, remote, nextId, last>>

\* reconcile_deleted_events up to its loop: get_deleted_events_from_db
reconcile_deleted_select ==
    /\ pending.pc = "idle"
    /\ LET selected == get_deleted_events_from_db(rows)
           deleted_events == OldestFirst(hist, selected)
       IN  /\ deleted_events # <<>>
           /\ pending' = PassAt("loop", deleted_events)
           /\ last' = [last EXCEPT !.beyond_limit =
                            @ \/ Cardinality(selected) > Len(deleted_events)]
    /\ UNCHANGED <<rows, remote, nextId, hist>>

\* One turn of the loop of reconcile_deleted_events for row i, the service
\* answering resp to the attempts of the delete call.
reconcile_deleted_turn(i, resp) ==
    LET event_id == rows[i].event_id
        result == api_call_with_retry(resp, 1)
    IN  /\ pending.pc = "loop"
        /\ Head(pending.queue) = i
        /\ \A n \in 1..max_retries :
            resp[n] \in ResponsesFor(OnRemote(remote, "work", event_id))
        /\ rows' = IF result = "None" THEN mark_event_removed(rows, event_id, "already_removed")
                   ELSE IF result = "result"
                        THEN mark_event_removed(rows, event_id, "removed_from_google")
                   ELSE rows
        /\ remote' = IF result = "result" THEN DeleteRemote(remote, "work", event_id)
                     ELSE remote
        /\ pending' = IF Len(pending.queue) = 1 THEN PassAt("idle", <<>>)
                      ELSE PassAt("loop", Tail(pending.queue))
        /\ last' = [last EXCEPT !.raised = @ \/ result = "raise"]
        /\ UNCHANGED <<nextId, hist>>

\* The delete call for row i answers: the call's result, or None
reconcile_deleted_answered(i) ==
    \E resp \in ResponseRuns :
        /\ api_call_with_retry(resp, 1) # "raise"
        /\ reconcile_deleted_turn(i, resp)

\* The delete call for row i raises
reconcile_deleted_raises(i) ==
    \E resp \in ResponseRuns :
        /\ api_call_with_retry(resp, 1) = "raise"
        /\ reconcile_deleted_turn(i, resp)

InitSettle ==
    /\ rows = [i \in 1..MaxSettleRows |->
                  NewRow(i, i, "A", 1, "work", "work", "other", NoSrc, "", "scanned")]
    /\ \E gone \in {{}, {1}} :
        remote = {RemoteEvent(i, i, "work", NoSrc, "A", 1) : i \in (1..MaxSettleRows) \ gone}
    /\ pending = PassAt("idle", <<>>)
    /\ nextId = MaxSettleRows + 1
    /\ hist = <<>>
    /\ last = [beyond_limit |-> FALSE, raised |-> FALSE]
    /\ locks = NoLocks
    /\ engine = OneEngine

NextSettle ==
    /\ \/ SettleSoftDelete
       \/ reconcile_deleted_select
       \/ \E i \in 1..MaxSettleRows : reconcile_deleted_answered(i)
       \/ \E i \in 1..MaxSettleRows : reconcile_deleted_raises(i)
    /\ UNCHANGED lockVars

SpecSettle == InitSettle /\ [][NextSettle]_vars

\* The passes keep running, and the delete call for each row answers in the
\* end.
SpecSettleFair ==
    /\ SpecSettle
    /\ WF_vars(reconcile_deleted_select /\ UNCHANGED lockVars)
    /\ \A i \in 1..MaxSettleRows :
        /\ WF_vars((reconcile_deleted_answered(i) \/ reconcile_deleted_raises(i))
                      /\ UNCHANGED lockVars)
        /\ SF_vars(reconcile_deleted_answered(i) /\ UNCHANGED lockVars)

\* C39: every soft-deleted row of the calendar is in the end marked
\* removed_from_google or already_removed.
C39_DeletedEventuallySettled ==
    \A i \in 1..MaxSettleRows :
        rows[i].deleted ~> (rows[i].last_action \in SettledActions)

\* C39's case: a pass left a row beyond its limit, a delete call raised in
\* some pass, and every row is soft-deleted and settled.
C39_Witness ==
    /\ last.beyond_limit
    /\ last.raised
    /\ \A i \in DOMAIN rows : rows[i].deleted /\ rows[i].last_action \in SettledActions

(***************************************************************************)
(* SpecService: UnifiedCalPalService.run, cycle after cycle.  engine is    *)
(* the service: its clock (in units of five minutes) and last_run; hist    *)
(* keeps what each cycle did.                                              *)
(***************************************************************************)
MaxCycles == 3      \* cycles in one behaviour
MaxFailures == 2    \* components that raise in one cycle
MaxWait == 2        \* longest time between two cycles

\* datetime.min
NeverRun == -100

\* The components in the order of run_cycle
ComponentOrder ==
    <<"25live_sync", "calendar_scan", "personal_family", "work_organizer",
      "subcalendar_sync", "wife_ics", "duplicate_check">>

Components == {ComponentOrder[k] : k \in DOMAIN ComponentOrder}

\* self.intervals, in units of five minutes
intervals ==
    [c \in Components |->
        CASE c = "25live_sync" -> 6
          [] c = "calendar_scan" -> 3
          [] c = "personal_family" -> 2
          [] c = "work_organizer" -> 1
          [] c = "subcalendar_sync" -> 2
          [] c = "wife_ics" -> 1
          [] c = "duplicate_check" -> 12]

should_run(last_run, now, component_name) ==
    now - last_run[component_name] >= intervals[component_name]

\* A run_* method that stamps last_run in a finally clause
run_component_stamped(last_run, now, component_name, raises) ==
    [last_run EXCEPT ![component_name] = now]

\* run_25live_sync and the other run_* methods: the component runs inside
\* try; last_run is set after the component returned; an exception is
\* logged and {'error': ...} returned.
run_component(last_run, now, component_name, raises) ==
    IF raises THEN last_run ELSE [last_run EXCEPT ![component_name] = now]

\* run_cycle from the k-th component on; st.ran is components_run.
RECURSIVE RunFrom(_, _, _, _)
RunFrom(st, now, k, raising) ==
    IF k > Len(ComponentOrder) THEN st
    ELSE LET c == ComponentOrder[k]
         IN  RunFrom(IF should_run(st.last_run, now, c)
                     THEN [last_run |-> run_component(st.last_run, now, c, c \in raising),
                           ran |-> Append(st.ran, c)]
                     ELSE st,
                     now, k + 1, raising)

\* run: shutdown_event.wait, then run_cycle; the first cycle runs at once.
run_cycle ==
    /\ Len(hist) < MaxCycles
    /\ \E wait \in 0..MaxWait, raising \in SUBSET Components :
        /\ hist = <<>> => wait = 0
        /\ Cardinality(raising) <= MaxFailures
        /\ LET now == engine.now + wait
               st == RunFrom([last_run |-> engine.last_run, ran |-> <<>>], now, 1, raising)
           IN  /\ raising \subseteq {st.ran[k] : k \in DOMAIN st.ran}
               /\ engine' = [now |-> now, last_run |-> st.last_run]
               /\ hist' = Append(hist, [now |-> now, before |-> engine.last_run,
                                        after |-> st.last_run, ran |-> st.ran,
                                        raised |-> raising])
    /\ UNCHANGED <<rows, pending, remote, nextId, last, locks>>

InitService ==
    /\ rows = <<>>
    /\ pending = [p \in Procs |-> Idle]
    /\ remote = {}
    /\ nextId = 1
    /\ hist = <<>>
    /\ last = <<>>
    /\ locks = NoLocks
    /\ engine = [now |-> 0, last_run |-> [c \in Components |-> NeverRun]]

NextService == run_cycle

SpecService == InitService /\ [][NextService]_vars

\* C40: each cycle runs exactly the components that were due when it began,
\* in the fixed order, whichever of them raise; a component that raised
\* keeps its last_run and runs again in the next cycle.
C40_FailureKeepsCycleAndDue ==
    \A n \in DOMAIN hist :
        /\ hist[n].ran = SelectSeq(ComponentOrder,
                                   LAMBDA c : should_run(hist[n].before, hist[n].now, c))
        /\ \A c \in hist[n].raised :
            /\ hist[n].after[c] = hist[n].before[c]
            /\ n < Len(hist) => \E k \in DOMAIN hist[n + 1].ran : hist[n + 1].ran[k] = c

\* C40's case: a component raised in a cycle in which a later component ran
\* and succeeded, and the component ran again in the next cycle.
C40_Witness ==
    \E n \in DOMAIN hist : \E j, k \in DOMAIN hist[n].ran :
        /\ j < k
        /\ hist[n].ran[j] \in hist[n].raised
        /\ hist[n].ran[k] \notin hist[n].raised
        /\ hist[n].after[hist[n].ran[k]] = hist[n].now
        /\ n < Len(hist)
        /\ \E m \in DOMAIN hist[n + 1].ran : hist[n + 1].ran[m] = hist[n].ran[j]

====
